---------------------------- MODULE Spec2Model ----------------------------
(***************************************************************************)
(* State-machine model of the synchronisation primitives and queues of     *)
(* the spi utilities (src/src/utils).  A specification models one object   *)
(* of one class and the threads that use it.  An action models one method; *)
(* each of its disjuncts is one step of the method: one access to shared   *)
(* memory (an atomic operation, a mutex operation, or a read or write of   *)
(* a plain field) together with the local computation around it.           *)
(***************************************************************************)
EXTENDS Integers, Sequences, FiniteSets, TLC

\* ------------------------------------------------------------------ bounds
\* Number of threads of the many-thread specifications.
NThreads == 3
\* Number of loop iterations (lock/unlock rounds, queue calls) per thread.
MaxIter == 2
\* Largest permit ceiling (max) a CountingLock is constructed with.
MaxPermits == 2

Threads == 1..NThreads

\* ------------------------------------------------------------------- state
VARIABLES
    impl,   \* the class of the modelled object
    obj,    \* the fields of the object (a record, named as in the source)
    pc,     \* Threads -> position of the thread in its code
    loc,    \* Threads -> the local variables of the running call
    iter,   \* Threads -> completed loop iterations or calls
    env     \* the variables of the driving test, or the history of calls

vars == <<impl, obj, pc, loc, iter, env>>

NoLocals == [t \in Threads |-> <<>>]

\* Thread t moves to position l.
Goto(t, l) == pc' = [pc EXCEPT ![t] = l]

\* Thread t ends a round of its loop and starts the next one at position l.
NextRound(t, l) ==
    /\ iter' = [iter EXCEPT ![t] = @ + 1]
    /\ Goto(t, IF iter[t] + 1 < MaxIter THEN l ELSE "done")

\* =====================================================================
\* Plain (non-atomic) fields shared by threads without synchronisation.
\* Such accesses race.  A plain store is a store instruction: on a target
\* whose cores buffer stores (obj.buffered = TRUE) it waits in the storing
\* core's store buffer obj.sb[t], first in first out, while the loads of
\* that core are served from its own buffer or from memory.  With
\* obj.buffered = FALSE every store is in memory at once.  An atomic
\* read-modify-write drains the buffer of its core.  An address is
\* <<field>> or <<field, node>>.
\* =====================================================================

\* The memory after val is written at address a.
Mem_put(o, a, val) ==
    IF Len(a) = 1 THEN [o EXCEPT ![a[1]] = val] ELSE [o EXCEPT ![a[1]][a[2]] = val]

\* The value thread t loads from a: its own youngest buffered store to a,
\* else the value in memory.
Mem_load(o, t, a) ==
    LET own == {i \in 1..Len(o.sb[t]) : o.sb[t][i][1] = a}
    IN  IF own # {}
           THEN o.sb[t][CHOOSE i \in own : \A j \in own : j <= i][2]
           ELSE IF Len(a) = 1 THEN o[a[1]] ELSE o[a[1]][a[2]]

\* The fields after thread t stores val to a.
Mem_store(o, t, a, val) ==
    IF o.buffered
       THEN [o EXCEPT !.sb[t] = Append(@, <<a, val>>)]
       ELSE Mem_put(o, a, val)

\* The place in a non-empty store buffer b of the store that reaches memory
\* next: the oldest one.
Mem_first_out_mut(b) == Len(b)
Mem_first_out(b) == 1

\* An atomic read-modify-write of thread t can execute: its buffer is drained.
Mem_drained_mut(o, t) == TRUE
Mem_drained(o, t) == o.sb[t] = <<>>

\* a buffered store of thread t becomes visible to the other threads
MemFlush(t) ==
    /\ obj.sb[t] # <<>>
    /\ LET b == obj.sb[t]
           k == Mem_first_out(b)
       IN  obj' = [Mem_put(obj, b[k][1], b[k][2])
                      EXCEPT !.sb[t] = SubSeq(b, 1, k - 1) \o SubSeq(b, k + 1, Len(b))]
    /\ UNCHANGED <<impl, pc, loc, iter, env>>

\* =====================================================================
\* Lock (ThreadSynchronization.hpp), driven by runSpinLock (LockTest.cpp)
\* obj = [reduceCpuUsage, aquired, mtx]; env = spinLockAccessTracker
\* =====================================================================

\* aquired.exchange(true): the value before the exchange.
Lock_exchange_mut(o) == FALSE
Lock_exchange(o) == o.aquired

\* The fields after Lock::unlock().
Lock_unlock(o) ==
    IF o.reduceCpuUsage THEN [o EXCEPT !.mtx = FALSE] ELSE [o EXCEPT !.aquired = FALSE]

\* The fields of a new Lock.
Lock_new(r) == [reduceCpuUsage |-> r, aquired |-> FALSE, mtx |-> FALSE]

LockInit ==
    /\ impl = "Lock"
    /\ \E r \in BOOLEAN : obj = Lock_new(r)
    /\ pc = [t \in Threads |-> "lock"]
    /\ loc = NoLocals
    /\ iter = [t \in Threads |-> 0]
    /\ env = [t \in Threads |-> FALSE]

\* Lock::lock(), from position "lock" to position "locked"
LockLock(t) ==
    \* reduceCpuUsage: mtx.lock() returns once the mutex is free
    \/ /\ pc[t] = "lock"
       /\ obj.reduceCpuUsage
       /\ ~obj.mtx
       /\ obj' = [obj EXCEPT !.mtx = TRUE]
       /\ Goto(t, "locked")
       /\ UNCHANGED <<impl, loc, iter, env>>
    \* otherwise: while(aquired.exchange(true))
    \/ /\ pc[t] = "lock"
       /\ ~obj.reduceCpuUsage
       /\ obj' = [obj EXCEPT !.aquired = TRUE]
       /\ Goto(t, IF Lock_exchange(obj) THEN "spin" ELSE "locked")
       /\ UNCHANGED <<impl, loc, iter, env>>
    \* while(aquired.load()) yield
    \/ /\ pc[t] = "spin"
       /\ Goto(t, IF obj.aquired THEN "spin" ELSE "lock")
       /\ UNCHANGED <<impl, obj, loc, iter, env>>

\* runSpinLock: the body of the loop between lock() and the next round
RunSpinLock(t) ==
    /\ impl = "Lock"
    /\ \/ \* spinLockAccessTracker[myId] = true
          /\ pc[t] = "locked"
          /\ env' = [env EXCEPT ![t] = TRUE]
          /\ Goto(t, "check")
          /\ UNCHANGED <<impl, obj, loc, iter>>
       \/ \* the loop over the other threads' trackers: throws when one is set
          /\ pc[t] = "check"
          /\ Goto(t, IF \E j \in Threads : j # t /\ env[j] THEN "thrown" ELSE "unmark")
          /\ UNCHANGED <<impl, obj, loc, iter, env>>
       \/ \* spinLockAccessTracker[myId] = false
          /\ pc[t] = "unmark"
          /\ env' = [env EXCEPT ![t] = FALSE]
          /\ Goto(t, "unlock")
          /\ UNCHANGED <<impl, obj, loc, iter>>
       \/ \* spinLock.unlock()
          /\ pc[t] = "unlock"
          /\ obj' = Lock_unlock(obj)
          /\ NextRound(t, "lock")
          /\ UNCHANGED <<impl, loc, env>>

LockNext == \E t \in Threads : LockLock(t) \/ RunSpinLock(t)

SpecLock == LockInit /\ [][LockNext]_vars

\* Threads between a returned lock() and the matching unlock().
LockHolders == {t \in Threads : pc[t] \in {"locked", "check", "unmark", "unlock", "thrown"}}

\* C1: in both modes at most one thread is between a returned lock() and its
\* matching unlock(), and the test's tracker check never throws.
C1_LockMutualExclusion ==
    /\ Cardinality(LockHolders) <= 1
    /\ \A t \in Threads : pc[t] # "thrown"

\* C1 witness: in spin mode a thread holds the lock in its second round
\* while another one has failed its exchange and is spinning.
C1_Witness ==
    /\ ~obj.reduceCpuUsage
    /\ \E t, u \in Threads : pc[t] = "check" /\ pc[u] = "spin" /\ iter[t] = 1

\* =====================================================================
\* ReadOrWriteAccess, multithreaded = false (ThreadSynchronization.hpp),
\* driven by runRead / runWrite (ThreadSynchronizationTest.cpp).
\* obj = [read, write, writersTurn, sb, buffered]
\* read, write and writersTurn are volatile bool, not std::atomic: they are
\* plain fields on which the two threads race.
\* =====================================================================
Reader == 1
Writer == 2

\* Both sides give writersTurn the same value and wait on it.
RW_side_mut(t) ==
    IF t = Reader THEN [mine |-> <<"read">>, others |-> <<"write">>, turn |-> TRUE]
    ELSE [mine |-> <<"write">>, others |-> <<"read">>, turn |-> TRUE]

\* The flag a side sets to show interest, the flag of the other side, and
\* the value the side gives writersTurn (with which it then waits).
RW_side(t) ==
    IF t = Reader THEN [mine |-> <<"read">>, others |-> <<"write">>, turn |-> TRUE]
    ELSE [mine |-> <<"write">>, others |-> <<"read">>, turn |-> FALSE]

\* The fields of a new ReadOrWriteAccess.
RW_new(b) ==
    [read |-> FALSE, write |-> FALSE, writersTurn |-> FALSE,
     sb |-> [t \in Threads |-> <<>>], buffered |-> b]

RWInit ==
    /\ impl = "ReadOrWriteAccess"
    /\ \E b \in BOOLEAN : obj = RW_new(b)
    /\ pc = [t \in Threads |-> IF t \in {Reader, Writer} THEN "access" ELSE "done"]
    /\ loc = NoLocals
    /\ iter = [t \in Threads |-> 0]
    /\ env = [since |-> [t \in {Reader, Writer} |-> 0]]

\* A side is inside between its access call returning and its release call.
RWInside(t) == pc[t] \in {"inside", "release"}

\* The number of times side t has entered its critical section.
RW_entries(t) == iter[t] + (IF RWInside(t) THEN 1 ELSE 0)

\* The history when side t starts to wait in its loop: since[t] is the number
\* of entries that the other side had made by then.  (Only runRead / runWrite
\* keep this history.)
RW_begin_wait(t) ==
    IF "since" \in DOMAIN env
       THEN [env EXCEPT !.since[t] = RW_entries(IF t = Reader THEN Writer ELSE Reader)]
       ELSE env

\* accessRead() for the reader, accessWrite() for the writer, from position
\* "access" to position "inside"
RWAccess(t) ==
    \* read = true / write = true
    \/ /\ pc[t] = "access"
       /\ obj' = Mem_store(obj, t, RW_side(t).mine, TRUE)
       /\ Goto(t, "turn")
       /\ UNCHANGED <<impl, loc, iter, env>>
    \* writersTurn = true / writersTurn = false
    \/ /\ pc[t] = "turn"
       /\ obj' = Mem_store(obj, t, <<"writersTurn">>, RW_side(t).turn)
       /\ Goto(t, "wait_flag")
       /\ env' = RW_begin_wait(t)
       /\ UNCHANGED <<impl, loc, iter>>
    \* first operand of the loop condition: while(write && ... / while(read && ...
    \/ /\ pc[t] = "wait_flag"
       /\ Goto(t, IF Mem_load(obj, t, RW_side(t).others) THEN "wait_turn" ELSE "inside")
       /\ UNCHANGED <<impl, obj, loc, iter, env>>
    \* second operand: ... && writersTurn) / ... && !writersTurn)
    \/ /\ pc[t] = "wait_turn"
       /\ Goto(t, IF Mem_load(obj, t, <<"writersTurn">>) = RW_side(t).turn
                     THEN "wait_flag" ELSE "inside")
       /\ UNCHANGED <<impl, obj, loc, iter, env>>

\* runRead / runWrite: the critical section, then releaseRead (read = false)
\* or releaseWrite (write = false)
RunReadWrite(t) ==
    /\ impl = "ReadOrWriteAccess"
    /\ \/ /\ pc[t] = "inside"
          /\ Goto(t, "release")
          /\ UNCHANGED <<impl, obj, loc, iter, env>>
       \/ /\ pc[t] = "release"
          /\ obj' = Mem_store(obj, t, RW_side(t).mine, FALSE)
          /\ NextRound(t, "access")
          /\ UNCHANGED <<impl, loc, env>>

RWNext == \E t \in {Reader, Writer} : RWAccess(t) \/ RunReadWrite(t) \/ MemFlush(t)

SpecRW == RWInit /\ [][RWNext]_vars

\* C2: with one reader and one writer in single-actor mode, the reader and
\* the writer are never both inside their critical sections.
C2_ReaderWriterExclusion == ~(RWInside(Reader) /\ RWInside(Writer))

\* C2 restricted to a target without store buffering (sequentially
\* consistent interleaving of the flag accesses): there the exclusion holds.
C2_ExclusionUnbuffered == ~obj.buffered => C2_ReaderWriterExclusion

\* =====================================================================
\* CountingLockCompSwap, CountingLockFetch, CountingLockSemaphore
\* (CountingLock.hpp) with multithreaded = true, so that counter is the
\* std::atomic of AtomicThreadSafe (Atomic.hpp), driven by the threads of
\* executeMultiThreadedTest (CountingLockTest.cpp).
\* obj = [counter, maxCounter, mutex, waiting, closing]; env = accessCounter
\* waiting is the set of threads blocked in cv.wait.
\* =====================================================================
CLImpls == {"CountingLockCompSwap", "CountingLockFetch", "CountingLockSemaphore"}

CLInit ==
    /\ impl \in CLImpls
    /\ \E max \in 1..MaxPermits :
          obj = [counter |-> IF impl = "CountingLockSemaphore" THEN max ELSE 0,
                 maxCounter |-> max, mutex |-> 0, waiting |-> {}, closing |-> FALSE]
    /\ pc = [t \in Threads |-> "idle"]
    /\ loc = [t \in Threads |-> [curr |-> 0, block |-> TRUE]]
    /\ iter = [t \in Threads |-> 0]
    /\ env = 0

\* The test of CountingLockCompSwap::acquire on the loaded value.
CompSwap_may_claim_mut(curr, max) == curr <= max
CompSwap_may_claim(curr, max) == curr < max

\* CountingLockCompSwap::acquire(block)
CompSwapAcquire(t) ==
    /\ impl = "CountingLockCompSwap"
    /\ \/ \* curr = counter.loadA() and the branch on it
          /\ pc[t] = "acquire"
          /\ loc' = [loc EXCEPT ![t].curr = obj.counter]
          /\ Goto(t, IF CompSwap_may_claim(obj.counter, obj.maxCounter) THEN "acq_cas"
                     ELSE IF loc[t].block THEN "acq_lock" ELSE "idle")
          /\ UNCHANGED <<impl, obj, iter, env>>
       \/ \* counter.compareExchangeWeakA(curr, curr+1)
          /\ pc[t] = "acq_cas"
          /\ IF obj.counter = loc[t].curr
                THEN obj' = [obj EXCEPT !.counter = loc[t].curr + 1] /\ Goto(t, "enter")
                ELSE UNCHANGED obj /\ Goto(t, "acquire")
          /\ UNCHANGED <<impl, loc, iter, env>>
       \/ \* std::unique_lock<std::mutex> lock(mutex)
          /\ pc[t] = "acq_lock"
          /\ obj.mutex = 0
          /\ obj' = [obj EXCEPT !.mutex = t]
          /\ Goto(t, "acq_wait")
          /\ UNCHANGED <<impl, loc, iter, env>>
       \/ \* cv.wait(lock) releases the mutex and blocks
          /\ pc[t] = "acq_wait"
          /\ obj' = [obj EXCEPT !.mutex = 0, !.waiting = @ \cup {t}]
          /\ Goto(t, "waiting")
          /\ UNCHANGED <<impl, loc, iter, env>>
       \/ \* cv.wait may wake without a notification (spurious wakeup)
          /\ pc[t] = "waiting"
          /\ obj' = [obj EXCEPT !.waiting = @ \ {t}]
          /\ Goto(t, "woken")
          /\ UNCHANGED <<impl, loc, iter, env>>
       \/ \* cv.wait returns with the mutex, the guard releases it, loop again
          /\ pc[t] = "woken"
          /\ obj.mutex = 0
          /\ Goto(t, "acquire")
          /\ UNCHANGED <<impl, obj, loc, iter, env>>

\* CountingLockCompSwap::release()
CompSwapRelease(t) ==
    /\ impl = "CountingLockCompSwap"
    /\ \/ \* curr = counter.loadB() and the branch on it
          /\ pc[t] = "release"
          /\ loc' = [loc EXCEPT ![t].curr = obj.counter]
          /\ Goto(t, IF obj.counter > 0 THEN "rel_cas" ELSE "thrown")
          /\ UNCHANGED <<impl, obj, iter, env>>
       \/ \* counter.compareExchangeWeakB(curr, curr-1)
          /\ pc[t] = "rel_cas"
          /\ IF obj.counter = loc[t].curr
                THEN obj' = [obj EXCEPT !.counter = loc[t].curr - 1] /\ Goto(t, "notify")
                ELSE UNCHANGED obj /\ Goto(t, "release")
          /\ UNCHANGED <<impl, loc, iter, env>>
       \/ \* cv.notify_all()
          /\ pc[t] = "notify"
          /\ obj' = [obj EXCEPT !.waiting = {}]
          /\ pc' = [u \in Threads |->
                      IF u = t THEN "idle" ELSE IF u \in obj.waiting THEN "woken" ELSE pc[u]]
          /\ UNCHANGED <<impl, loc, iter, env>>

\* The test of CountingLockFetch::acquire on the fetched value.
Fetch_claimed_mut(prevValue, max) == prevValue <= max
Fetch_claimed(prevValue, max) == prevValue < max

\* CountingLockFetch::acquire(block)
FetchAcquire(t) ==
    /\ impl = "CountingLockFetch"
    /\ \/ \* while(!closing): prevValue = counter.fetchAddA(1) and the branch
          /\ pc[t] = "acquire"
          /\ IF obj.closing
                THEN UNCHANGED obj /\ Goto(t, "idle")
                ELSE /\ obj' = [obj EXCEPT !.counter = @ + 1]
                     /\ Goto(t, IF Fetch_claimed(obj.counter, obj.maxCounter)
                                   THEN "enter" ELSE "acq_undo")
          /\ UNCHANGED <<impl, loc, iter, env>>
       \/ \* counter.fetchSubA(1); if(!block) return false
          /\ pc[t] = "acq_undo"
          /\ obj' = [obj EXCEPT !.counter = @ - 1]
          /\ Goto(t, IF loc[t].block THEN "acq_lock" ELSE "idle")
          /\ UNCHANGED <<impl, loc, iter, env>>
       \/ \* std::unique_lock<std::mutex> lock(mutex)
          /\ pc[t] = "acq_lock"
          /\ obj.mutex = 0
          /\ obj' = [obj EXCEPT !.mutex = t]
          /\ Goto(t, "acq_wait")
          /\ UNCHANGED <<impl, loc, iter, env>>
       \/ \* if(!closing), with the mutex held; else the guard releases it
          /\ pc[t] = "acq_wait"
          /\ IF obj.closing
                THEN obj' = [obj EXCEPT !.mutex = 0] /\ Goto(t, "acquire")
                ELSE UNCHANGED obj /\ Goto(t, "acq_cvwait")
          /\ UNCHANGED <<impl, loc, iter, env>>
       \/ \* cv.wait(lock) releases the mutex and blocks
          /\ pc[t] = "acq_cvwait"
          /\ obj' = [obj EXCEPT !.mutex = 0, !.waiting = @ \cup {t}]
          /\ Goto(t, "waiting")
          /\ UNCHANGED <<impl, loc, iter, env>>
       \/ \* cv.wait may wake without a notification (spurious wakeup)
          /\ pc[t] = "waiting"
          /\ obj' = [obj EXCEPT !.waiting = @ \ {t}]
          /\ Goto(t, "woken")
          /\ UNCHANGED <<impl, loc, iter, env>>
       \/ \* cv.wait returns with the mutex, the guard releases it, loop again
          /\ pc[t] = "woken"
          /\ obj.mutex = 0
          /\ Goto(t, "acquire")
          /\ UNCHANGED <<impl, obj, loc, iter, env>>

\* CountingLockFetch::release()
FetchRelease(t) ==
    /\ impl = "CountingLockFetch"
    /\ \/ \* prevValue = counter.fetchSubB(1) and the branch on it
          /\ pc[t] = "release"
          /\ obj' = [obj EXCEPT !.counter = @ - 1]
          /\ Goto(t, IF obj.counter <= 0 THEN "rel_undo" ELSE "notify")
          /\ UNCHANGED <<impl, loc, iter, env>>
       \/ \* counter.fetchAddB(1); throw std::runtime_error
          /\ pc[t] = "rel_undo"
          /\ obj' = [obj EXCEPT !.counter = @ + 1]
          /\ Goto(t, "thrown")
          /\ UNCHANGED <<impl, loc, iter, env>>
       \/ \* cv.notify_all()
          /\ pc[t] = "notify"
          /\ obj' = [obj EXCEPT !.waiting = {}]
          /\ pc' = [u \in Threads |->
                      IF u = t THEN "idle" ELSE IF u \in obj.waiting THEN "woken" ELSE pc[u]]
          /\ UNCHANGED <<impl, loc, iter, env>>

\* CountingLockSemaphore::acquire: counter.acquire() returns once a permit is
\* available and takes it
SemaphoreAcquire(t) ==
    /\ impl = "CountingLockSemaphore"
    /\ pc[t] = "acquire"
    /\ obj.counter > 0
    /\ obj' = [obj EXCEPT !.counter = @ - 1]
    /\ Goto(t, "enter")
    /\ UNCHANGED <<impl, loc, iter, env>>

\* CountingLockSemaphore::release: counter.release()
SemaphoreRelease(t) ==
    /\ impl = "CountingLockSemaphore"
    /\ pc[t] = "release"
    /\ obj' = [obj EXCEPT !.counter = @ + 1]
    /\ Goto(t, "idle")
    /\ UNCHANGED <<impl, loc, iter, env>>

\* executeMultiThreadedTest: the thread's loop around acquire and release
RunCountingLock(t) ==
    \/ \* lock->acquire(block)
       /\ pc[t] = "idle"
       /\ \E block \in BOOLEAN : loc' = [loc EXCEPT ![t].block = block]
       /\ Goto(t, "acquire")
       /\ UNCHANGED <<impl, obj, iter, env>>
    \/ \* check = accessCounter.fetch_add(1) + 1
       /\ pc[t] = "enter"
       /\ env' = env + 1
       /\ Goto(t, "leave")
       /\ UNCHANGED <<impl, obj, loc, iter>>
    \/ \* check = accessCounter.fetch_sub(1) - 1, then lock->release()
       /\ pc[t] = "leave"
       /\ env' = env - 1
       /\ Goto(t, "release")
       /\ UNCHANGED <<impl, obj, loc, iter>>

CLNext ==
    \E t \in Threads :
        \/ RunCountingLock(t)
        \/ CompSwapAcquire(t)
        \/ CompSwapRelease(t)
        \/ FetchAcquire(t)
        \/ FetchRelease(t)
        \/ SemaphoreAcquire(t)
        \/ SemaphoreRelease(t)

SpecCL == CLInit /\ [][CLNext]_vars

\* Threads between a successful acquire() and the decrement of their release().
CLHolders == {t \in Threads : pc[t] \in {"enter", "leave", "release", "rel_cas"}}

\* C3: for each of the three implementations built with max = M, the number
\* of threads between a successful acquire and the matching release is never
\* above M, and the test's in-section counter stays within 0..M.
C3_AtMostMaxHolders ==
    /\ Cardinality(CLHolders) <= obj.maxCounter
    /\ env >= 0
    /\ env <= obj.maxCounter

\* C3 witness: all M = 2 permits of a lock are held and counted while a third
\* thread has been refused and waits.
C3_Witness ==
    /\ obj.maxCounter = 2
    /\ env = 2
    /\ \E t \in Threads : pc[t] = "waiting"

\* =====================================================================
\* Queues: the calling threads (as in QueueBenchmark.cpp, but concurrent)
\* and the history of their calls.  Every pushed value is distinct, and the
\* values of one producer grow in push order.
\* env = [pushed, popped, fifo]
\* =====================================================================
\* Number of calls of each side of a two-party queue.
MaxCalls == 3

\* The classes for exactly one producer thread and one consumer thread.
TwoPartyImpls == {"QueueTwoParty", "QueueTwoPartyAtomic", "QueueTwoPartyNoCritical"}

\* The thread that only pushes and the thread that only pops; every further
\* thread of a many-thread queue chooses at each call.
Producer == 2
Consumer == 1
QOps(t) ==
    IF t = Producer THEN {"push"}
    ELSE IF t = Consumer THEN {"pop"}
    ELSE IF impl \in TwoPartyImpls THEN {} ELSE {"push", "pop"}

\* The largest pushed value, the value thread t pushes in its next call, the
\* thread that pushes v, and the number of node addresses.
QMaxVal   == NThreads * MaxCalls
QValue(t) == (t - 1) * MaxCalls + iter[t] + 1
QProducer(v) == ((v - 1) \div MaxCalls) + 1
QMaxNodes == NThreads * MaxIter + 2

\* The locals of a thread outside a call.
QIdle == [op |-> "none", data |-> 0, newNode |-> 0, oldHead |-> 0, oldTail |-> 0,
          firstNode |-> 0, oldCount |-> 0, oldOffset |-> 0, seen |-> {}]

\* The history before the first call: the values whose push was called, how
\* often each value was returned by a pop, and whether every pop so far
\* respected the order of its producer.
QHistory == [pushed |-> {}, popped |-> [v \in 0..QMaxVal |-> 0], fifo |-> TRUE]

\* The values returned by pops so far.
QPopped(h) == {v \in 0..QMaxVal : h.popped[v] > 0}

\* The history after a pop that was called when the values in seen had been
\* returned itself returns v: the order of a producer is broken when a later
\* value of the producer of v had been returned before this pop was called.
QRecordPop(h, v, seen) ==
    [h EXCEPT !.popped[v] = @ + 1,
              !.fifo = @ /\ ~\E w \in seen : QProducer(w) = QProducer(v) /\ w > v]

\* The threads and the history before the first call.
QThreadsInit ==
    /\ pc = [t \in Threads |-> IF QOps(t) = {} THEN "done" ELSE "idle"]
    /\ loc = [t \in Threads |-> QIdle]
    /\ iter = [t \in Threads |-> 0]
    /\ env = QHistory

\* a thread calls push(QValue(t)) or pop(data); the lock-based queues take
\* the lock first, except that QueueLockCustom::push allocates its node
\* before, and QueueTwoParty::pop starts with accessRead()
QCall(t) ==
    /\ pc[t] = "idle"
    /\ \E op \in QOps(t) :
          /\ loc' = [loc EXCEPT ![t] = [QIdle EXCEPT !.op = op, !.seen = QPopped(env),
                                           !.data = IF op = "push" THEN QValue(t) ELSE 0]]
          /\ env' = IF op = "push" THEN [env EXCEPT !.pushed = @ \cup {QValue(t)}] ELSE env
          /\ Goto(t, IF impl = "QueueLock" \/ (impl = "QueueLockCustom" /\ op = "pop")
                        THEN "lock"
                     ELSE IF impl = "QueueTwoParty" /\ op = "pop" THEN "access" ELSE op)
    /\ UNCHANGED <<impl, obj, iter>>

\* The call of thread t returns.
QReturn(t) ==
    /\ iter' = [iter EXCEPT ![t] = @ + 1]
    /\ Goto(t, IF iter[t] + 1 < (IF impl \in TwoPartyImpls THEN MaxCalls ELSE MaxIter)
                  THEN "idle" ELSE "done")
    /\ loc' = [loc EXCEPT ![t] = QIdle]

\* ------------------------------------------------------------- node heap
\* obj.live is the set of allocated node addresses, obj.brk the highest
\* address handed out so far; address 0 is nullptr.  The content of a node
\* that is not allocated is indeterminate.
Heap_new ==
    [next |-> [n \in 0..QMaxNodes |-> 0], data |-> [n \in 0..QMaxNodes |-> 0],
     live |-> {}, brk |-> 0, sb |-> [t \in Threads |-> <<>>], buffered |-> FALSE]

\* The addresses operator new may return: a freed one, or the next fresh one.
Heap_free(o) == {n \in 1..QMaxNodes : n \notin o.live /\ n <= o.brk + 1}

\* The heap after new Node(d, nx) returned n, and after delete n.
Heap_alloc(o, n, d, nx) ==
    [o EXCEPT !.live = @ \cup {n}, !.brk = IF n > @ THEN n ELSE @,
              !.data[n] = d, !.next[n] = nx]
Heap_delete(o, n) == [o EXCEPT !.live = @ \ {n}, !.data[n] = 0, !.next[n] = 0]

\* The values a read by thread t of field f ("next" or "data") of node n can
\* yield, and the fields after thread t writes v to it.
Heap_read(o, t, f, n) ==
    IF n \in o.live THEN {Mem_load(o, t, <<f, n>>)}
    ELSE IF f = "next" THEN 0..QMaxNodes ELSE 0..QMaxVal
Heap_write(o, t, f, n, v) == IF n \in o.live THEN Mem_store(o, t, <<f, n>>, v) ELSE o

\* The nodes linked from n on (at most k of them).
RECURSIVE Heap_list(_, _, _)
Heap_list(o, n, k) ==
    IF n = 0 \/ k = 0 \/ n \notin o.live THEN <<>>
    ELSE <<n>> \o Heap_list(o, o.next[n], k - 1)

\* ------------------------------------------------ properties of a history
\* No thread is inside a call and no store is waiting in a buffer.
QQuiet ==
    /\ \A t \in Threads : pc[t] \in {"idle", "done"}
    /\ "sb" \in DOMAIN obj => \A t \in Threads : obj.sb[t] = <<>>

\* No thread was terminated by a fault.
QNoCrash == \A t \in Threads : pc[t] # "crashed"

\* The history of pops is one of a FIFO queue: only pushed values are
\* returned, none twice, and no pop overtakes an earlier push of the same
\* producer.
QPopsAreFifo ==
    /\ \A v \in 0..QMaxVal : env.popped[v] > 0 => v \in env.pushed /\ env.popped[v] = 1
    /\ env.fifo

\* The stored elements s are exactly the pushed values not yet popped, each
\* once, every producer's values in push order and behind the popped values
\* of that producer.
QNothingLost(s) ==
    /\ \A i, j \in 1..Len(s) :
          i < j => s[i] # s[j] /\ (QProducer(s[i]) = QProducer(s[j]) => s[i] < s[j])
    /\ {s[i] : i \in 1..Len(s)} = env.pushed \ QPopped(env)
    /\ \A i \in 1..Len(s) : \A w \in QPopped(env) : QProducer(w) = QProducer(s[i]) => w < s[i]

\* =====================================================================
\* QueueLock and QueueLockCustom (QueueLock.hpp)
\* obj = the fields of lock, and queue (QueueLock) or head, tail and the
\* heap (QueueLockCustom)
\* =====================================================================
QLImpls == {"QueueLock", "QueueLockCustom"}

\* The fields of a new QueueLock and of a new QueueLockCustom.
QueueLock_new(r) == Lock_new(r) @@ [queue |-> <<>>]
QueueLockCustom_new(r) == Lock_new(r) @@ Heap_new @@ [head |-> 0, tail |-> 0]

QLInit ==
    /\ impl \in QLImpls
    /\ \E r \in BOOLEAN :
          obj = IF impl = "QueueLock" THEN QueueLock_new(r) ELSE QueueLockCustom_new(r)
    /\ QThreadsInit

\* QueueLock::push
QueueLockPush(t) ==
    /\ impl = "QueueLock"
    /\ loc[t].op = "push"
    /\ \/ \* queue.push(data)
          /\ pc[t] = "locked"
          /\ obj' = [obj EXCEPT !.queue = Append(@, loc[t].data)]
          /\ Goto(t, "unlock")
          /\ UNCHANGED <<impl, loc, iter, env>>
       \/ \* lock.unlock()
          /\ pc[t] = "unlock"
          /\ obj' = Lock_unlock(obj)
          /\ QReturn(t)
          /\ UNCHANGED <<impl, env>>

\* QueueLock::pop with the test of queue.empty() inverted.
QueueLockPop_mut(t) ==
    /\ impl = "QueueLock"
    /\ loc[t].op = "pop"
    /\ \/ \* if(queue.empty())
          /\ pc[t] = "locked"
          /\ Goto(t, IF obj.queue # <<>> THEN "unlock" ELSE "front")
          /\ UNCHANGED <<impl, obj, loc, iter, env>>
       \/ \* data = queue.front(); queue.pop()
          /\ pc[t] = "front"
          /\ \E d \in (IF obj.queue # <<>> THEN {Head(obj.queue)} ELSE 0..QMaxVal) :
                /\ loc' = [loc EXCEPT ![t].data = d]
                /\ env' = QRecordPop(env, d, loc[t].seen)
          /\ obj' = [obj EXCEPT !.queue = IF @ # <<>> THEN Tail(@) ELSE @]
          /\ Goto(t, "unlock")
          /\ UNCHANGED <<impl, iter>>
       \/ \* lock.unlock()
          /\ pc[t] = "unlock"
          /\ obj' = Lock_unlock(obj)
          /\ QReturn(t)
          /\ UNCHANGED <<impl, env>>

\* QueueLock::pop
QueueLockPop(t) ==
    /\ impl = "QueueLock"
    /\ loc[t].op = "pop"
    /\ \/ \* if(queue.empty())
          /\ pc[t] = "locked"
          /\ Goto(t, IF obj.queue = <<>> THEN "unlock" ELSE "front")
          /\ UNCHANGED <<impl, obj, loc, iter, env>>
       \/ \* data = queue.front(); queue.pop()
          /\ pc[t] = "front"
          /\ \E d \in (IF obj.queue # <<>> THEN {Head(obj.queue)} ELSE 0..QMaxVal) :
                /\ loc' = [loc EXCEPT ![t].data = d]
                /\ env' = QRecordPop(env, d, loc[t].seen)
          /\ obj' = [obj EXCEPT !.queue = IF @ # <<>> THEN Tail(@) ELSE @]
          /\ Goto(t, "unlock")
          /\ UNCHANGED <<impl, iter>>
       \/ \* lock.unlock()
          /\ pc[t] = "unlock"
          /\ obj' = Lock_unlock(obj)
          /\ QReturn(t)
          /\ UNCHANGED <<impl, env>>

\* QueueLockCustom::push
QueueLockCustomPush(t) ==
    /\ impl = "QueueLockCustom"
    /\ loc[t].op = "push"
    /\ \/ \* newNode = new Node(data, nullptr)
          /\ pc[t] = "push"
          /\ \E n \in Heap_free(obj) :
                /\ obj' = Heap_alloc(obj, n, loc[t].data, 0)
                /\ loc' = [loc EXCEPT ![t].newNode = n]
          /\ Goto(t, "lock")
          /\ UNCHANGED <<impl, iter, env>>
       \/ \* if(tail != nullptr) tail->next = newNode; else head = newNode
          /\ pc[t] = "locked"
          /\ obj' = IF obj.tail # 0
                       THEN Heap_write(obj, t, "next", obj.tail, loc[t].newNode)
                       ELSE [obj EXCEPT !.head = loc[t].newNode]
          /\ Goto(t, "set_tail")
          /\ UNCHANGED <<impl, loc, iter, env>>
       \/ \* tail = newNode
          /\ pc[t] = "set_tail"
          /\ obj' = [obj EXCEPT !.tail = loc[t].newNode]
          /\ Goto(t, "unlock")
          /\ UNCHANGED <<impl, loc, iter, env>>
       \/ \* lock.unlock()
          /\ pc[t] = "unlock"
          /\ obj' = Lock_unlock(obj)
          /\ QReturn(t)
          /\ UNCHANGED <<impl, env>>

\* QueueLockCustom::pop
QueueLockCustomPop(t) ==
    /\ impl = "QueueLockCustom"
    /\ loc[t].op = "pop"
    /\ \/ \* if(head == nullptr); data = head->data; oldHead = head
          /\ pc[t] = "locked"
          /\ IF obj.head = 0
                THEN Goto(t, "unlock") /\ UNCHANGED <<loc, env>>
                ELSE /\ \E d \in Heap_read(obj, t, "data", obj.head) :
                           /\ loc' = [loc EXCEPT ![t].data = d, ![t].oldHead = obj.head]
                           /\ env' = QRecordPop(env, d, loc[t].seen)
                     /\ Goto(t, "advance")
          /\ UNCHANGED <<impl, obj, iter>>
       \/ \* head = head->next; delete oldHead
          /\ pc[t] = "advance"
          /\ \E n \in Heap_read(obj, t, "next", obj.head) :
                obj' = Heap_delete([obj EXCEPT !.head = n], loc[t].oldHead)
          /\ Goto(t, "fix_tail")
          /\ UNCHANGED <<impl, loc, iter, env>>
       \/ \* if(head == nullptr) tail = nullptr
          /\ pc[t] = "fix_tail"
          /\ obj' = IF obj.head = 0 THEN [obj EXCEPT !.tail = 0] ELSE obj
          /\ Goto(t, "unlock")
          /\ UNCHANGED <<impl, loc, iter, env>>
       \/ \* lock.unlock()
          /\ pc[t] = "unlock"
          /\ obj' = Lock_unlock(obj)
          /\ QReturn(t)
          /\ UNCHANGED <<impl, env>>

QLNext ==
    \E t \in Threads :
        \/ QCall(t)
        \/ LockLock(t)
        \/ QueueLockPush(t)
        \/ QueueLockPop(t)
        \/ QueueLockCustomPush(t)
        \/ QueueLockCustomPop(t)

SpecQL == QLInit /\ [][QLNext]_vars

\* The elements stored in a lock-based queue, oldest first.
QL_contents(o) ==
    IF impl = "QueueLock" THEN o.queue
    ELSE LET l == Heap_list(o, o.head, QMaxNodes) IN [i \in 1..Len(l) |-> o.data[l[i]]]

\* C4: QueueLock and QueueLockCustom behave as a FIFO queue: pops return only
\* pushed values, none twice, each producer's values in push order, and
\* whenever no call is running the popped values and the stored elements
\* together are exactly the pushed values (no loss, no duplication).
C4_LockQueuesAreFifo ==
    /\ QPopsAreFifo
    /\ QQuiet => QNothingLost(QL_contents(obj))

\* C4 witness: all calls are over, two values of one producer were popped
\* and a value of another producer is still stored.
C4_Witness ==
    /\ \A t \in Threads : pc[t] = "done"
    /\ \E v, w \in QPopped(env) : v < w /\ QProducer(v) = QProducer(w)
    /\ Len(QL_contents(obj)) = 1

\* =====================================================================
\* QueueAtomic (QueueAtomic.hpp)
\* obj = head, tail (std::atomic<Node*>) and the heap
\* A read through nullptr ends the process (segmentation fault); a read of a
\* node that was deleted yields an indeterminate value.
\* =====================================================================

\* The fields of a new QueueAtomic: head and tail point to the sentinel.
QueueAtomic_new == Heap_alloc(Heap_new, 1, 0, 0) @@ [head |-> 1, tail |-> 1]

\* QueueAtomic::push
QueueAtomicPush(t) ==
    /\ impl = "QueueAtomic"
    /\ \/ \* newNode = new Node(data, nullptr)
          /\ pc[t] = "push"
          /\ \E n \in Heap_free(obj) :
                /\ obj' = Heap_alloc(obj, n, loc[t].data, 0)
                /\ loc' = [loc EXCEPT ![t].newNode = n]
          /\ Goto(t, "load_tail")
          /\ UNCHANGED <<impl, iter, env>>
       \/ \* oldTail = tail.load()
          /\ pc[t] = "load_tail"
          /\ loc' = [loc EXCEPT ![t].oldTail = obj.tail]
          /\ Goto(t, "cas_tail")
          /\ UNCHANGED <<impl, obj, iter, env>>
       \/ \* if(tail.compare_exchange_weak(oldTail, newNode))
          /\ pc[t] = "cas_tail"
          /\ IF obj.tail = loc[t].oldTail
                THEN obj' = [obj EXCEPT !.tail = loc[t].newNode] /\ Goto(t, "link")
                ELSE UNCHANGED obj /\ Goto(t, "load_tail")
          /\ UNCHANGED <<impl, loc, iter, env>>
       \/ \* oldTail->next = newNode
          /\ pc[t] = "link"
          /\ obj' = Heap_write(obj, t, "next", loc[t].oldTail, loc[t].newNode)
          /\ QReturn(t)
          /\ UNCHANGED <<impl, env>>

\* QueueAtomic::pop
QueueAtomicPop(t) ==
    /\ impl = "QueueAtomic"
    /\ \/ \* oldHead = head.load()
          /\ pc[t] = "pop"
          /\ loc' = [loc EXCEPT ![t].oldHead = obj.head]
          /\ Goto(t, "pop_tail")
          /\ UNCHANGED <<impl, obj, iter, env>>
       \/ \* oldTail = tail.load()
          /\ pc[t] = "pop_tail"
          /\ loc' = [loc EXCEPT ![t].oldTail = obj.tail]
          /\ Goto(t, "pop_next")
          /\ UNCHANGED <<impl, obj, iter, env>>
       \/ \* firstNode = oldHead->next and the two tests on it: return false
          \* when oldHead == oldTail and firstNode == nullptr
          /\ pc[t] = "pop_next"
          /\ loc[t].oldHead # 0
          /\ \E n \in Heap_read(obj, t, "next", loc[t].oldHead) :
                IF loc[t].oldHead = loc[t].oldTail /\ n = 0
                   THEN QReturn(t)
                   ELSE /\ loc' = [loc EXCEPT ![t].firstNode = n]
                        /\ Goto(t, IF loc[t].oldHead = loc[t].oldTail THEN "help" ELSE "cas_head")
                        /\ UNCHANGED iter
          /\ UNCHANGED <<impl, obj, env>>
       \/ \* tail.compare_exchange_weak(oldTail, firstNode), and the loop restarts
          /\ pc[t] = "help"
          /\ obj' = IF obj.tail = loc[t].oldTail
                       THEN [obj EXCEPT !.tail = loc[t].firstNode] ELSE obj
          /\ Goto(t, "pop")
          /\ UNCHANGED <<impl, loc, iter, env>>
       \/ \* if(head.compare_exchange_weak(oldHead, firstNode))
          /\ pc[t] = "cas_head"
          /\ IF obj.head = loc[t].oldHead
                THEN obj' = [obj EXCEPT !.head = loc[t].firstNode] /\ Goto(t, "pop_data")
                ELSE UNCHANGED obj /\ Goto(t, "pop")
          /\ UNCHANGED <<impl, loc, iter, env>>
       \/ \* data = firstNode->data
          /\ pc[t] = "pop_data"
          /\ loc[t].firstNode # 0
          /\ \E d \in Heap_read(obj, t, "data", loc[t].firstNode) :
                /\ loc' = [loc EXCEPT ![t].data = d]
                /\ env' = QRecordPop(env, d, loc[t].seen)
          /\ Goto(t, "pop_delete")
          /\ UNCHANGED <<impl, obj, iter>>
       \/ \* delete oldHead; return true
          /\ pc[t] = "pop_delete"
          /\ obj' = Heap_delete(obj, loc[t].oldHead)
          /\ QReturn(t)
          /\ UNCHANGED <<impl, env>>
       \/ \* oldHead->next or firstNode->data is read through nullptr, or
          \* oldHead is deleted a second time: the process is terminated
          /\ \/ pc[t] = "pop_next" /\ loc[t].oldHead = 0
             \/ pc[t] = "pop_data" /\ loc[t].firstNode = 0
             \/ pc[t] = "pop_delete" /\ loc[t].oldHead \notin obj.live
          /\ pc' = [u \in Threads |-> "crashed"]
          /\ loc' = [u \in Threads |-> QIdle]
          /\ UNCHANGED <<impl, obj, iter, env>>

\* The elements stored in a QueueAtomic: the nodes behind the sentinel.
QueueAtomic_contents(o) ==
    LET l == IF o.head \in o.live THEN Heap_list(o, o.next[o.head], QMaxNodes) ELSE <<>>
    IN  [i \in 1..Len(l) |-> o.data[l[i]]]

\* =====================================================================
\* QueueRing (QueueRing.hpp)
\* obj = data (the vector), size (data.size()), readOffset, writeOffset,
\* count (std::atomic<size_t>)
\* =====================================================================
\* Largest capacity a QueueRing is constructed with.
MaxCapacity == 2

\* The fields of a new QueueRing(size): data.resize(size) fills it with T().
QueueRing_new(size) ==
    [data |-> [i \in 0..(size - 1) |-> 0], size |-> size,
     readOffset |-> 0, writeOffset |-> 0, count |-> 0]

\* QueueRing::push with the test for a full ring one element late.
QueueRingPush_mut(t) ==
    /\ impl = "QueueRing"
    /\ \/ \* oldCount = count.load(); if(oldCount == data.size()) throw
          /\ pc[t] = "push"
          /\ IF obj.count = obj.size + 1
                THEN /\ env' = [env EXCEPT !.pushed = @ \ {loc[t].data}]
                     /\ QReturn(t)
                ELSE /\ loc' = [loc EXCEPT ![t].oldCount = obj.count]
                     /\ Goto(t, "push_claim")
                     /\ UNCHANGED <<iter, env>>
          /\ UNCHANGED <<impl, obj>>
       \/ \* count.compare_exchange_weak(oldCount, oldCount + 1)
          /\ pc[t] = "push_claim"
          /\ IF obj.count = loc[t].oldCount
                THEN obj' = [obj EXCEPT !.count = loc[t].oldCount + 1] /\ Goto(t, "push_offset")
                ELSE UNCHANGED obj /\ Goto(t, "push")
          /\ UNCHANGED <<impl, loc, iter, env>>
       \/ \* oldWriteOffset = writeOffset.load()
          /\ pc[t] = "push_offset"
          /\ loc' = [loc EXCEPT ![t].oldOffset = obj.writeOffset]
          /\ Goto(t, "push_advance")
          /\ UNCHANGED <<impl, obj, iter, env>>
       \/ \* writeOffset.compare_exchange_weak(oldWriteOffset, newWriteOffset)
          /\ pc[t] = "push_advance"
          /\ IF obj.writeOffset = loc[t].oldOffset
                THEN /\ obj' = [obj EXCEPT !.writeOffset = (loc[t].oldOffset + 1) % obj.size]
                     /\ Goto(t, "push_write")
                ELSE UNCHANGED obj /\ Goto(t, "push_offset")
          /\ UNCHANGED <<impl, loc, iter, env>>
       \/ \* this->data[oldWriteOffset] = data
          /\ pc[t] = "push_write"
          /\ obj' = [obj EXCEPT !.data[loc[t].oldOffset] = loc[t].data]
          /\ QReturn(t)
          /\ UNCHANGED <<impl, env>>

\* QueueRing::push
QueueRingPush(t) ==
    /\ impl = "QueueRing"
    /\ \/ \* oldCount = count.load(); if(oldCount == data.size()) throw
          /\ pc[t] = "push"
          /\ IF obj.count = obj.size
                THEN /\ env' = [env EXCEPT !.pushed = @ \ {loc[t].data}]
                     /\ QReturn(t)
                ELSE /\ loc' = [loc EXCEPT ![t].oldCount = obj.count]
                     /\ Goto(t, "push_claim")
                     /\ UNCHANGED <<iter, env>>
          /\ UNCHANGED <<impl, obj>>
       \/ \* count.compare_exchange_weak(oldCount, oldCount + 1)
          /\ pc[t] = "push_claim"
          /\ IF obj.count = loc[t].oldCount
                THEN obj' = [obj EXCEPT !.count = loc[t].oldCount + 1] /\ Goto(t, "push_offset")
                ELSE UNCHANGED obj /\ Goto(t, "push")
          /\ UNCHANGED <<impl, loc, iter, env>>
       \/ \* oldWriteOffset = writeOffset.load()
          /\ pc[t] = "push_offset"
          /\ loc' = [loc EXCEPT ![t].oldOffset = obj.writeOffset]
          /\ Goto(t, "push_advance")
          /\ UNCHANGED <<impl, obj, iter, env>>
       \/ \* writeOffset.compare_exchange_weak(oldWriteOffset, newWriteOffset)
          /\ pc[t] = "push_advance"
          /\ IF obj.writeOffset = loc[t].oldOffset
                THEN /\ obj' = [obj EXCEPT !.writeOffset = (loc[t].oldOffset + 1) % obj.size]
                     /\ Goto(t, "push_write")
                ELSE UNCHANGED obj /\ Goto(t, "push_offset")
          /\ UNCHANGED <<impl, loc, iter, env>>
       \/ \* this->data[oldWriteOffset] = data
          /\ pc[t] = "push_write"
          /\ obj' = [obj EXCEPT !.data[loc[t].oldOffset] = loc[t].data]
          /\ QReturn(t)
          /\ UNCHANGED <<impl, env>>

\* QueueRing::pop
QueueRingPop(t) ==
    /\ impl = "QueueRing"
    /\ \/ \* oldCount = count.load(); if(oldCount == 0) return false
          /\ pc[t] = "pop"
          /\ IF obj.count = 0
                THEN QReturn(t)
                ELSE /\ loc' = [loc EXCEPT ![t].oldCount = obj.count]
                     /\ Goto(t, "pop_claim")
                     /\ UNCHANGED iter
          /\ UNCHANGED <<impl, obj, env>>
       \/ \* count.compare_exchange_weak(oldCount, oldCount - 1)
          /\ pc[t] = "pop_claim"
          /\ IF obj.count = loc[t].oldCount
                THEN obj' = [obj EXCEPT !.count = loc[t].oldCount - 1] /\ Goto(t, "pop_offset")
                ELSE UNCHANGED obj /\ Goto(t, "pop")
          /\ UNCHANGED <<impl, loc, iter, env>>
       \/ \* oldReadOffset = readOffset.load()
          /\ pc[t] = "pop_offset"
          /\ loc' = [loc EXCEPT ![t].oldOffset = obj.readOffset]
          /\ Goto(t, "pop_advance")
          /\ UNCHANGED <<impl, obj, iter, env>>
       \/ \* readOffset.compare_exchange_weak(oldReadOffset, newReadOffset)
          /\ pc[t] = "pop_advance"
          /\ IF obj.readOffset = loc[t].oldOffset
                THEN /\ obj' = [obj EXCEPT !.readOffset = (loc[t].oldOffset + 1) % obj.size]
                     /\ Goto(t, "pop_read")
                ELSE UNCHANGED obj /\ Goto(t, "pop_offset")
          /\ UNCHANGED <<impl, loc, iter, env>>
       \/ \* data = this->data[oldReadOffset]; return true
          /\ pc[t] = "pop_read"
          /\ env' = QRecordPop(env, obj.data[loc[t].oldOffset], loc[t].seen)
          /\ QReturn(t)
          /\ UNCHANGED <<impl, obj>>

\* The elements stored in a QueueRing: count slots from readOffset on.
QueueRing_contents(o) == [i \in 1..o.count |-> o.data[(o.readOffset + i - 1) % o.size]]

\* ---------------------------------------- the two lock-free queue classes
QFInit ==
    /\ impl \in {"QueueAtomic", "QueueRing"}
    /\ IF impl = "QueueAtomic" THEN obj = QueueAtomic_new
       ELSE \E size \in 1..MaxCapacity : obj = QueueRing_new(size)
    /\ QThreadsInit

QFNext ==
    \E t \in Threads :
        \/ QCall(t)
        \/ QueueAtomicPush(t)
        \/ QueueAtomicPop(t)
        \/ QueueRingPush(t)
        \/ QueueRingPop(t)

SpecQF == QFInit /\ [][QFNext]_vars

\* C5: with any number of producers and consumers on a QueueAtomic, every
\* successful pop yields a pushed and not yet popped element, the elements
\* of one producer are popped in push order, no pop faults, and whenever no
\* call is running the popped and the stored elements together are exactly
\* the pushed ones.
C5_QueueAtomicIsFifo ==
    impl = "QueueAtomic" =>
        /\ QPopsAreFifo
        /\ QNoCrash
        /\ QQuiet => QNothingLost(QueueAtomic_contents(obj))

\* C6: on a QueueRing every successful pop returns the value written by the
\* matching push, in FIFO order: never the content of a slot whose push has
\* claimed the count but not yet written, nothing lost, nothing twice.
C6_QueueRingIsFifo ==
    impl = "QueueRing" =>
        /\ QPopsAreFifo
        /\ QQuiet => QNothingLost(QueueRing_contents(obj))

\* =====================================================================
\* QueueTwoPartyNoCritical (QueueTwoPartyNoCritical.hpp)
\* obj = head, recycleTail (used by pop only), tail, recycleHead (used by
\* push only) and the heap.  The fields of the nodes are plain fields that
\* both threads access.
\* =====================================================================

\* The fields of a new queue: dummy is node 1, dummy2 is node 2.
QueueTwoPartyNoCritical_new(b) ==
    [Heap_alloc(Heap_alloc(Heap_new, 1, 0, 0), 2, 0, 0) EXCEPT !.buffered = b]
        @@ [head |-> 1, tail |-> 1, recycleHead |-> 2, recycleTail |-> 2]

\* QueueTwoPartyNoCritical::push that never takes a node from the free list.
QueueTwoPartyNoCriticalPush_mut(t) ==
    /\ impl = "QueueTwoPartyNoCritical"
    /\ \/ \* if(recycleHead->next != nullptr)
          /\ pc[t] = "push"
          /\ \E n \in Heap_read(obj, t, "next", obj.recycleHead) :
                Goto(t, "new")
          /\ UNCHANGED <<impl, obj, loc, iter, env>>
       \/ \* newNode = recycleHead; recycleHead = recycleHead->next
          /\ pc[t] = "recycle"
          /\ \E n \in Heap_read(obj, t, "next", obj.recycleHead) :
                obj' = [obj EXCEPT !.recycleHead = n]
          /\ loc' = [loc EXCEPT ![t].newNode = obj.recycleHead]
          /\ Goto(t, "clear")
          /\ UNCHANGED <<impl, iter, env>>
       \/ \* newNode->next = nullptr
          /\ pc[t] = "clear"
          /\ obj' = Heap_write(obj, t, "next", loc[t].newNode, 0)
          /\ Goto(t, "fill")
          /\ UNCHANGED <<impl, loc, iter, env>>
       \/ \* newNode = new Node()
          /\ pc[t] = "new"
          /\ \E n \in Heap_free(obj) :
                /\ obj' = Heap_alloc(obj, n, 0, 0)
                /\ loc' = [loc EXCEPT ![t].newNode = n]
          /\ Goto(t, "fill")
          /\ UNCHANGED <<impl, iter, env>>
       \/ \* oldTail = tail; oldTail->data = data; tail = newNode
          /\ pc[t] = "fill"
          /\ obj' = [Heap_write(obj, t, "data", obj.tail, loc[t].data)
                        EXCEPT !.tail = loc[t].newNode]
          /\ loc' = [loc EXCEPT ![t].oldTail = obj.tail]
          /\ Goto(t, "link")
          /\ UNCHANGED <<impl, iter, env>>
       \/ \* oldTail->next = newNode
          /\ pc[t] = "link"
          /\ obj' = Heap_write(obj, t, "next", loc[t].oldTail, loc[t].newNode)
          /\ QReturn(t)
          /\ UNCHANGED <<impl, env>>

\* QueueTwoPartyNoCritical::push
QueueTwoPartyNoCriticalPush(t) ==
    /\ impl = "QueueTwoPartyNoCritical"
    /\ \/ \* if(recycleHead->next != nullptr)
          /\ pc[t] = "push"
          /\ \E n \in Heap_read(obj, t, "next", obj.recycleHead) :
                Goto(t, IF n # 0 THEN "recycle" ELSE "new")
          /\ UNCHANGED <<impl, obj, loc, iter, env>>
       \/ \* newNode = recycleHead; recycleHead = recycleHead->next
          /\ pc[t] = "recycle"
          /\ \E n \in Heap_read(obj, t, "next", obj.recycleHead) :
                obj' = [obj EXCEPT !.recycleHead = n]
          /\ loc' = [loc EXCEPT ![t].newNode = obj.recycleHead]
          /\ Goto(t, "clear")
          /\ UNCHANGED <<impl, iter, env>>
       \/ \* newNode->next = nullptr
          /\ pc[t] = "clear"
          /\ obj' = Heap_write(obj, t, "next", loc[t].newNode, 0)
          /\ Goto(t, "fill")
          /\ UNCHANGED <<impl, loc, iter, env>>
       \/ \* newNode = new Node()
          /\ pc[t] = "new"
          /\ \E n \in Heap_free(obj) :
                /\ obj' = Heap_alloc(obj, n, 0, 0)
                /\ loc' = [loc EXCEPT ![t].newNode = n]
          /\ Goto(t, "fill")
          /\ UNCHANGED <<impl, iter, env>>
       \/ \* oldTail = tail; oldTail->data = data; tail = newNode
          /\ pc[t] = "fill"
          /\ obj' = [Heap_write(obj, t, "data", obj.tail, loc[t].data)
                        EXCEPT !.tail = loc[t].newNode]
          /\ loc' = [loc EXCEPT ![t].oldTail = obj.tail]
          /\ Goto(t, "link")
          /\ UNCHANGED <<impl, iter, env>>
       \/ \* oldTail->next = newNode
          /\ pc[t] = "link"
          /\ obj' = Heap_write(obj, t, "next", loc[t].oldTail, loc[t].newNode)
          /\ QReturn(t)
          /\ UNCHANGED <<impl, env>>

\* QueueTwoPartyNoCritical::pop (oldRecycleTail is kept in loc.oldTail)
QueueTwoPartyNoCriticalPop(t) ==
    /\ impl = "QueueTwoPartyNoCritical"
    /\ \/ \* if(head->next == nullptr) return false
          /\ pc[t] = "pop"
          /\ \E n \in Heap_read(obj, t, "next", obj.head) :
                IF n = 0 THEN QReturn(t) ELSE Goto(t, "advance") /\ UNCHANGED <<loc, iter>>
          /\ UNCHANGED <<impl, obj, env>>
       \/ \* oldHead = head; head = head->next
          /\ pc[t] = "advance"
          /\ \E n \in Heap_read(obj, t, "next", obj.head) :
                obj' = [obj EXCEPT !.head = n]
          /\ loc' = [loc EXCEPT ![t].oldHead = obj.head]
          /\ Goto(t, "read")
          /\ UNCHANGED <<impl, iter, env>>
       \/ \* data = oldHead->data
          /\ pc[t] = "read"
          /\ \E d \in Heap_read(obj, t, "data", loc[t].oldHead) :
                /\ loc' = [loc EXCEPT ![t].data = d]
                /\ env' = QRecordPop(env, d, loc[t].seen)
          /\ Goto(t, "unlink")
          /\ UNCHANGED <<impl, obj, iter>>
       \/ \* oldHead->next = nullptr; oldRecycleTail = recycleTail; recycleTail = oldHead
          /\ pc[t] = "unlink"
          /\ obj' = [Heap_write(obj, t, "next", loc[t].oldHead, 0)
                        EXCEPT !.recycleTail = loc[t].oldHead]
          /\ loc' = [loc EXCEPT ![t].oldTail = obj.recycleTail]
          /\ Goto(t, "retire")
          /\ UNCHANGED <<impl, iter, env>>
       \/ \* oldRecycleTail->next = oldHead; return true
          /\ pc[t] = "retire"
          /\ obj' = Heap_write(obj, t, "next", loc[t].oldTail, loc[t].oldHead)
          /\ QReturn(t)
          /\ UNCHANGED <<impl, env>>

\* =====================================================================
\* QueueTwoPartyAtomic (QueueTwoPartyAtomic.hpp)
\* obj = head, recycleTail (used by pop only), tail, recycleHead (used by
\* push only), count, recycleCount (std::atomic<size_t>) and the heap
\* =====================================================================

\* The fields of a new queue: dummy is node 1, dummy2 is node 2.
QueueTwoPartyAtomic_new(b) ==
    QueueTwoPartyNoCritical_new(b) @@ [count |-> 1, recycleCount |-> 1]

\* QueueTwoPartyAtomic::push
QueueTwoPartyAtomicPush(t) ==
    /\ impl = "QueueTwoPartyAtomic"
    /\ \/ \* if(recycleCount.fetch_sub(1) == 1)
          /\ pc[t] = "push"
          /\ Mem_drained(obj, t)
          /\ obj' = [obj EXCEPT !.recycleCount = @ - 1]
          /\ Goto(t, IF obj.recycleCount = 1 THEN "restore" ELSE "recycle")
          /\ UNCHANGED <<impl, loc, iter, env>>
       \/ \* recycleCount.fetch_add(1); newNode = new Node()
          /\ pc[t] = "restore"
          /\ Mem_drained(obj, t)
          /\ \E n \in Heap_free(obj) :
                /\ obj' = [Heap_alloc(obj, n, 0, 0) EXCEPT !.recycleCount = @ + 1]
                /\ loc' = [loc EXCEPT ![t].newNode = n]
          /\ Goto(t, "link")
          /\ UNCHANGED <<impl, iter, env>>
       \/ \* newNode = recycleHead; recycleHead = recycleHead->next
          /\ pc[t] = "recycle"
          /\ \E n \in Heap_read(obj, t, "next", obj.recycleHead) :
                obj' = [obj EXCEPT !.recycleHead = n]
          /\ loc' = [loc EXCEPT ![t].newNode = obj.recycleHead]
          /\ Goto(t, "link")
          /\ UNCHANGED <<impl, iter, env>>
       \/ \* tail->next = newNode
          /\ pc[t] = "link"
          /\ obj' = Heap_write(obj, t, "next", obj.tail, loc[t].newNode)
          /\ Goto(t, "fill")
          /\ UNCHANGED <<impl, loc, iter, env>>
       \/ \* tail->data = data; tail = tail->next
          /\ pc[t] = "fill"
          /\ \E n \in Heap_read(obj, t, "next", obj.tail) :
                obj' = [Heap_write(obj, t, "data", obj.tail, loc[t].data) EXCEPT !.tail = n]
          /\ Goto(t, "count")
          /\ UNCHANGED <<impl, loc, iter, env>>
       \/ \* count.fetch_add(1)
          /\ pc[t] = "count"
          /\ Mem_drained(obj, t)
          /\ obj' = [obj EXCEPT !.count = @ + 1]
          /\ QReturn(t)
          /\ UNCHANGED <<impl, env>>

\* QueueTwoPartyAtomic::pop
QueueTwoPartyAtomicPop(t) ==
    /\ impl = "QueueTwoPartyAtomic"
    /\ \/ \* if(count.fetch_sub(1) == 1)
          /\ pc[t] = "pop"
          /\ Mem_drained(obj, t)
          /\ obj' = [obj EXCEPT !.count = @ - 1]
          /\ Goto(t, IF obj.count = 1 THEN "pop_restore" ELSE "advance")
          /\ UNCHANGED <<impl, loc, iter, env>>
       \/ \* count.fetch_add(1); return false
          /\ pc[t] = "pop_restore"
          /\ Mem_drained(obj, t)
          /\ obj' = [obj EXCEPT !.count = @ + 1]
          /\ QReturn(t)
          /\ UNCHANGED <<impl, env>>
       \/ \* oldHead = head; head = head->next
          /\ pc[t] = "advance"
          /\ \E n \in Heap_read(obj, t, "next", obj.head) :
                obj' = [obj EXCEPT !.head = n]
          /\ loc' = [loc EXCEPT ![t].oldHead = obj.head]
          /\ Goto(t, "read")
          /\ UNCHANGED <<impl, iter, env>>
       \/ \* data = oldHead->data
          /\ pc[t] = "read"
          /\ \E d \in Heap_read(obj, t, "data", loc[t].oldHead) :
                /\ loc' = [loc EXCEPT ![t].data = d]
                /\ env' = QRecordPop(env, d, loc[t].seen)
          /\ Goto(t, "unlink")
          /\ UNCHANGED <<impl, obj, iter>>
       \/ \* oldHead->next = nullptr
          /\ pc[t] = "unlink"
          /\ obj' = Heap_write(obj, t, "next", loc[t].oldHead, 0)
          /\ Goto(t, "retire")
          /\ UNCHANGED <<impl, loc, iter, env>>
       \/ \* recycleTail->next = oldHead; recycleTail = oldHead
          /\ pc[t] = "retire"
          /\ obj' = [Heap_write(obj, t, "next", obj.recycleTail, loc[t].oldHead)
                        EXCEPT !.recycleTail = loc[t].oldHead]
          /\ Goto(t, "recount")
          /\ UNCHANGED <<impl, loc, iter, env>>
       \/ \* recycleCount.fetch_add(1); return true
          /\ pc[t] = "recount"
          /\ Mem_drained(obj, t)
          /\ obj' = [obj EXCEPT !.recycleCount = @ + 1]
          /\ QReturn(t)
          /\ UNCHANGED <<impl, env>>

\* =====================================================================
\* QueueTwoParty (QueueTwoParty.hpp)
\* obj = head, tail, the fields of access (a ReadOrWriteAccess in
\* single-actor mode) and the heap; push is the writer, pop the reader.
\* head, tail and the fields of the nodes are plain fields that both
\* threads access.
\* =====================================================================

\* The fields of a new QueueTwoParty.
QueueTwoParty_new(b) == RW_new(b) @@ Heap_new @@ [head |-> 0, tail |-> 0]

\* QueueTwoParty::push
QueueTwoPartyPush(t) ==
    /\ impl = "QueueTwoParty"
    /\ loc[t].op = "push"
    /\ \/ \* newNode = new Node(data, nullptr), then access.accessWrite()
          /\ pc[t] = "push"
          /\ \E n \in Heap_free(obj) :
                /\ obj' = Heap_alloc(obj, n, loc[t].data, 0)
                /\ loc' = [loc EXCEPT ![t].newNode = n]
          /\ Goto(t, "access")
          /\ UNCHANGED <<impl, iter, env>>
       \/ \* if(tail != nullptr) tail->next = newNode; else head = newNode
          /\ pc[t] = "inside"
          /\ obj' = IF Mem_load(obj, t, <<"tail">>) # 0
                       THEN Heap_write(obj, t, "next", Mem_load(obj, t, <<"tail">>), loc[t].newNode)
                       ELSE Mem_store(obj, t, <<"head">>, loc[t].newNode)
          /\ Goto(t, "set_tail")
          /\ UNCHANGED <<impl, loc, iter, env>>
       \/ \* tail = newNode
          /\ pc[t] = "set_tail"
          /\ obj' = Mem_store(obj, t, <<"tail">>, loc[t].newNode)
          /\ Goto(t, "release")
          /\ UNCHANGED <<impl, loc, iter, env>>
       \/ \* access.releaseWrite(): write = false
          /\ pc[t] = "release"
          /\ obj' = Mem_store(obj, t, RW_side(t).mine, FALSE)
          /\ QReturn(t)
          /\ UNCHANGED <<impl, env>>

\* QueueTwoParty::pop, after access.accessRead()
QueueTwoPartyPop(t) ==
    /\ impl = "QueueTwoParty"
    /\ loc[t].op = "pop"
    /\ \/ \* if(head == nullptr)
          /\ pc[t] = "inside"
          /\ Goto(t, IF Mem_load(obj, t, <<"head">>) = 0 THEN "release" ELSE "front")
          /\ UNCHANGED <<impl, obj, loc, iter, env>>
       \/ \* data = head->data; oldHead = head
          /\ pc[t] = "front"
          /\ \E d \in Heap_read(obj, t, "data", Mem_load(obj, t, <<"head">>)) :
                /\ loc' = [loc EXCEPT ![t].data = d, ![t].oldHead = Mem_load(obj, t, <<"head">>)]
                /\ env' = QRecordPop(env, d, loc[t].seen)
          /\ Goto(t, "advance")
          /\ UNCHANGED <<impl, obj, iter>>
       \/ \* head = head->next
          /\ pc[t] = "advance"
          /\ \E n \in Heap_read(obj, t, "next", Mem_load(obj, t, <<"head">>)) :
                obj' = Mem_store(obj, t, <<"head">>, n)
          /\ Goto(t, "fix_tail")
          /\ UNCHANGED <<impl, loc, iter, env>>
       \/ \* if(head == nullptr) tail = nullptr
          /\ pc[t] = "fix_tail"
          /\ obj' = IF Mem_load(obj, t, <<"head">>) = 0
                       THEN Mem_store(obj, t, <<"tail">>, 0) ELSE obj
          /\ Goto(t, "release")
          /\ UNCHANGED <<impl, loc, iter, env>>
       \/ \* access.releaseRead(): read = false; return false when nothing was popped
          /\ pc[t] = "release"
          /\ obj' = Mem_store(obj, t, RW_side(t).mine, FALSE)
          /\ IF loc[t].oldHead = 0
                THEN QReturn(t)
                ELSE Goto(t, "delete") /\ UNCHANGED <<loc, iter>>
          /\ UNCHANGED <<impl, env>>
       \/ \* delete oldHead; return true
          /\ pc[t] = "delete"
          /\ obj' = Heap_delete(obj, loc[t].oldHead)
          /\ QReturn(t)
          /\ UNCHANGED <<impl, env>>

\* ------------------------------------------------ the two-party queues
Q2Init ==
    /\ impl \in TwoPartyImpls
    /\ \E b \in BOOLEAN :
          obj = CASE impl = "QueueTwoPartyNoCritical" -> QueueTwoPartyNoCritical_new(b)
                  [] impl = "QueueTwoPartyAtomic" -> QueueTwoPartyAtomic_new(b)
                  [] impl = "QueueTwoParty" -> QueueTwoParty_new(b)
    /\ QThreadsInit

Q2Next ==
    \E t \in {Producer, Consumer} :
        \/ QCall(t)
        \/ MemFlush(t)
        \/ QueueTwoPartyNoCriticalPush(t)
        \/ QueueTwoPartyNoCriticalPop(t)
        \/ QueueTwoPartyAtomicPush(t)
        \/ QueueTwoPartyAtomicPop(t)
        \/ impl = "QueueTwoParty" /\ RWAccess(t)
        \/ QueueTwoPartyPush(t)
        \/ QueueTwoPartyPop(t)

SpecQ2 == Q2Init /\ [][Q2Next]_vars

\* The elements stored in a two-party queue, oldest first.  In the two
\* recycling classes the last node of the list is the dummy that the next
\* push fills; QueueTwoPartyAtomic counts its elements in count - 1.
Q2_contents(o) ==
    LET l == Heap_list(o, o.head, QMaxNodes)
        n == CASE impl = "QueueTwoParty" -> Len(l)
               [] impl = "QueueTwoPartyNoCritical" -> Len(l) - 1
               [] impl = "QueueTwoPartyAtomic" -> IF o.count - 1 < Len(l) THEN o.count - 1 ELSE Len(l)
    IN  [i \in 1..n |-> o.data[l[i]]]

\* The history of a two-party queue is one of a FIFO queue.
Q2IsFifo ==
    /\ QPopsAreFifo
    /\ QQuiet => QNothingLost(Q2_contents(obj))

\* C7: with one producer and one consumer on a QueueTwoPartyNoCritical, the
\* field accesses of push and pop interleaved one by one, successful pops
\* return the pushed elements in push order, none lost, none twice.
C7_NoCriticalIsFifo == impl = "QueueTwoPartyNoCritical" => Q2IsFifo

\* C7 witness: the third pop returns the third pushed value while the queue
\* has reused a recycled node.
C7_Witness ==
    /\ impl = "QueueTwoPartyNoCritical"
    /\ Cardinality(QPopped(env)) = MaxCalls
    /\ obj.brk < MaxCalls + 2

\* C8: with one producer and one consumer on a QueueTwoPartyAtomic,
\* successful pops return the pushed elements in push order, none lost, none
\* twice, also while push reuses nodes that pop retires.
C8_TwoPartyAtomicIsFifo == impl = "QueueTwoPartyAtomic" => Q2IsFifo

\* C8 witness: push takes a node from the free list while pop is retiring
\* another node to it, and in the end all values are popped.
C8_Witness ==
    /\ impl = "QueueTwoPartyAtomic"
    /\ \/ pc[Producer] = "recycle" /\ pc[Consumer] \in {"unlink", "retire"}
       \/ Cardinality(QPopped(env)) = MaxCalls /\ obj.brk < MaxCalls + 2

\* Push or pop of a QueueTwoParty is between its access and its release.
QueueTwoPartyInside(t) ==
    pc[t] \in {"inside", "front", "advance", "fix_tail", "set_tail", "release"}

\* C9: on a QueueTwoParty with one producer and one consumer, push and pop
\* never run their list updates at the same time, and successful pops return
\* the pushed elements in push order, none lost, none twice.
C9_TwoPartyIsFifo ==
    impl = "QueueTwoParty" =>
        /\ ~(QueueTwoPartyInside(Producer) /\ QueueTwoPartyInside(Consumer))
        /\ Q2IsFifo

\* C9 restricted to a target without store buffering: there it holds.
C9_FifoUnbuffered == ~obj.buffered => C9_TwoPartyIsFifo

\* =====================================================================
\* The callback queues (CallbackQueueNaive.hpp, CallbackQueueRecycle.hpp,
\* CallbackQueueThreadSafe.hpp, CallbackQueueLock.hpp,
\* CallbackQueueTwoParty.hpp)
\* A callback is a number (0 is nullptr) kept in the data field of its
\* entry; what it returns is chosen when it is invoked.  env is the history:
\* pending are the callbacks pushed that have not returned true yet, invoked
\* the callbacks the running (or last) execute() invoked, failed the first
\* callback that returned false in it, owed the callback that returned false
\* in the execute() before, ret what the last execute() returned ("none"
\* while it runs).
\* =====================================================================

\* Number of calls of push and execute that the caller makes.
MaxCbCalls == 6

CallbackQueueImpls ==
    {"CallbackQueueNaive", "CallbackQueueRecycle", "CallbackQueueThreadSafe",
     "CallbackQueueLock", "CallbackQueueTwoParty"}

\* The locals of push and execute
CQIdle == [op |-> "none", data |-> 0, entry |-> 0, oldTail |-> 0, oldHead |-> 0,
           hasMore |-> FALSE]

\* The history after callback c was invoked and returned r.
CQ_invoked(h, c, r) ==
    [h EXCEPT !.invoked = Append(@, c),
              !.pending = IF r THEN SelectSeq(@, LAMBDA x : x # c) ELSE @,
              !.failed = IF ~r /\ @ = 0 THEN c ELSE @]

\* a thread calls push(callback) with a new callback, or execute()
CQCall(t) ==
    /\ pc[t] = "idle"
    /\ \E op \in {"push", "execute"} :
          /\ loc' = [loc EXCEPT ![t] = [CQIdle EXCEPT !.op = op,
                        !.data = IF op = "push" THEN (t - 1) * MaxCbCalls + iter[t] + 1 ELSE 0]]
          /\ env' = IF op = "push"
                       THEN [env EXCEPT !.pending = Append(@, (t - 1) * MaxCbCalls + iter[t] + 1)]
                       ELSE [env EXCEPT !.invoked = <<>>, !.owed = env.failed,
                                        !.failed = 0, !.ret = "none"]
          /\ Goto(t, op)
    /\ UNCHANGED <<impl, obj, iter>>

\* The call of thread t returns v ("void" from push).
CQReturn(t, v) ==
    /\ iter' = [iter EXCEPT ![t] = @ + 1]
    /\ Goto(t, IF iter[t] + 1 < MaxCbCalls THEN "idle" ELSE "done")
    /\ loc' = [loc EXCEPT ![t] = CQIdle]
    /\ env' = IF v = "void" THEN env ELSE [env EXCEPT !.ret = v]

\* The call of thread t ends by invoking an empty callback.
CQThrow(t) ==
    /\ Goto(t, "thrown")
    /\ UNCHANGED <<impl, obj, loc, iter, env>>

\* ----------------------------------------------------- CallbackQueueNaive
\* obj = head, tail (atomic), executing (atomic) and the heap
CallbackQueueNaive_new ==
    Heap_new @@ [head |-> 0, tail |-> 0, executing |-> FALSE]

\* CallbackQueueNaive::push
CallbackQueueNaivePush(t) ==
    /\ impl = "CallbackQueueNaive"
    /\ \/ \* entry = new Entry(); entry->callback = callback
          /\ pc[t] = "push"
          /\ \E n \in Heap_free(obj) :
                /\ obj' = Heap_alloc(obj, n, loc[t].data, 0)
                /\ loc' = [loc EXCEPT ![t].entry = n]
          /\ Goto(t, "xchg")
          /\ UNCHANGED <<impl, iter, env>>
       \/ \* oldTail = tail.exchange(entry)
          /\ pc[t] = "xchg"
          /\ Mem_drained(obj, t)
          /\ obj' = [obj EXCEPT !.tail = loc[t].entry]
          /\ loc' = [loc EXCEPT ![t].oldTail = obj.tail]
          /\ Goto(t, "link")
          /\ UNCHANGED <<impl, iter, env>>
       \/ \* if(oldTail == nullptr) head = entry; else oldTail->next = entry
          /\ pc[t] = "link"
          /\ obj' = IF loc[t].oldTail = 0
                       THEN Mem_store(obj, t, <<"head">>, loc[t].entry)
                       ELSE Heap_write(obj, t, "next", loc[t].oldTail, loc[t].entry)
          /\ CQReturn(t, "void")
          /\ UNCHANGED impl

\* CallbackQueueNaive::execute
CallbackQueueNaiveExecute(t) ==
    /\ impl = "CallbackQueueNaive"
    /\ \/ \* if(executing.exchange(true)) return true
          /\ pc[t] = "execute"
          /\ Mem_drained(obj, t)
          /\ obj' = [obj EXCEPT !.executing = TRUE]
          /\ IF obj.executing
                THEN CQReturn(t, "true")
                ELSE Goto(t, "test") /\ UNCHANGED <<loc, iter, env>>
          /\ UNCHANGED impl
       \/ \* hasMore = head != nullptr; while(hasMore)
          /\ pc[t] = "test"
          /\ loc' = [loc EXCEPT ![t].hasMore = Mem_load(obj, t, <<"head">>) # 0]
          /\ Goto(t, IF Mem_load(obj, t, <<"head">>) # 0 THEN "invoke" ELSE "finish")
          /\ UNCHANGED <<impl, obj, iter, env>>
       \/ \* if(head->callback()) ... else break
          /\ pc[t] = "invoke"
          /\ \E c \in Heap_read(obj, t, "data", Mem_load(obj, t, <<"head">>)) :
                IF c = 0 THEN CQThrow(t)
                ELSE \E r \in BOOLEAN :
                        /\ env' = CQ_invoked(env, c, r)
                        /\ Goto(t, IF r THEN "remove" ELSE "finish")
                        /\ UNCHANGED <<impl, obj, loc, iter>>
       \/ \* oldHead = head; tmp = oldHead; head = oldHead->next
          /\ pc[t] = "remove"
          /\ \E n \in Heap_read(obj, t, "next", Mem_load(obj, t, <<"head">>)) :
                obj' = Mem_store(obj, t, <<"head">>, n)
          /\ loc' = [loc EXCEPT ![t].oldHead = Mem_load(obj, t, <<"head">>)]
          /\ Goto(t, "cas")
          /\ UNCHANGED <<impl, iter, env>>
       \/ \* tail.compare_exchange_strong(tmp, oldHead->next)
          /\ pc[t] = "cas"
          /\ Mem_drained(obj, t)
          /\ \E n \in Heap_read(obj, t, "next", loc[t].oldHead) :
                obj' = IF obj.tail = loc[t].oldHead THEN [obj EXCEPT !.tail = n] ELSE obj
          /\ Goto(t, "delete")
          /\ UNCHANGED <<impl, loc, iter, env>>
       \/ \* delete oldHead; hasMore = head != nullptr
          /\ pc[t] = "delete"
          /\ obj' = Heap_delete(obj, loc[t].oldHead)
          /\ loc' = [loc EXCEPT ![t].hasMore = Mem_load(obj, t, <<"head">>) # 0]
          /\ Goto(t, IF Mem_load(obj, t, <<"head">>) # 0 THEN "invoke" ELSE "finish")
          /\ UNCHANGED <<impl, iter, env>>
       \/ \* executing.store(false); return !hasMore
          /\ pc[t] = "finish"
          /\ Mem_drained(obj, t)
          /\ obj' = [obj EXCEPT !.executing = FALSE]
          /\ CQReturn(t, IF loc[t].hasMore THEN "false" ELSE "true")
          /\ UNCHANGED impl

\* --------------------------------------------------- CallbackQueueRecycle
\* obj = head, tail, executing, poolHead, poolTail (all but head atomic)
\* and the heap
CallbackQueueRecycle_new ==
    CallbackQueueNaive_new @@ [poolHead |-> 0, poolTail |-> 0]

\* CallbackQueueRecycle::push
CallbackQueueRecyclePush(t) ==
    /\ impl = "CallbackQueueRecycle"
    /\ \/ \* entry = poolHead.load(); if(entry != nullptr) ... else
          \* { entry = new Entry(); entry->callback = callback; }
          /\ pc[t] = "push"
          /\ Mem_drained(obj, t)
          /\ IF obj.poolHead # 0
                THEN /\ loc' = [loc EXCEPT ![t].entry = obj.poolHead]
                     /\ Goto(t, "pool_cas")
                     /\ UNCHANGED obj
                ELSE /\ \E n \in Heap_free(obj) :
                           /\ obj' = Heap_alloc(obj, n, loc[t].data, 0)
                           /\ loc' = [loc EXCEPT ![t].entry = n]
                     /\ Goto(t, "xchg")
          /\ UNCHANGED <<impl, iter, env>>
       \/ \* tmp = entry; if(poolHead.compare_exchange_strong(tmp, entry->next))
          /\ pc[t] = "pool_cas"
          /\ Mem_drained(obj, t)
          /\ \E n \in Heap_read(obj, t, "next", loc[t].entry) :
                IF obj.poolHead = loc[t].entry
                   THEN obj' = [obj EXCEPT !.poolHead = n] /\ Goto(t, "reuse")
                   ELSE UNCHANGED obj /\ Goto(t, "push")
          /\ UNCHANGED <<impl, loc, iter, env>>
       \/ \* entry->callback = callback; entry->next = nullptr
          /\ pc[t] = "reuse"
          /\ obj' = Heap_write(Heap_write(obj, t, "data", loc[t].entry, loc[t].data),
                               t, "next", loc[t].entry, 0)
          /\ Goto(t, "xchg")
          /\ UNCHANGED <<impl, loc, iter, env>>
       \/ \* oldTail = tail.exchange(entry)
          /\ pc[t] = "xchg"
          /\ Mem_drained(obj, t)
          /\ obj' = [obj EXCEPT !.tail = loc[t].entry]
          /\ loc' = [loc EXCEPT ![t].oldTail = obj.tail]
          /\ Goto(t, "link")
          /\ UNCHANGED <<impl, iter, env>>
       \/ \* if(oldTail == nullptr) head = entry; else oldTail->next = entry
          /\ pc[t] = "link"
          /\ obj' = IF loc[t].oldTail = 0
                       THEN Mem_store(obj, t, <<"head">>, loc[t].entry)
                       ELSE Heap_write(obj, t, "next", loc[t].oldTail, loc[t].entry)
          /\ CQReturn(t, "void")
          /\ UNCHANGED impl

\* CallbackQueueRecycle::execute; invoking the null function pointer of an
\* entry ends the program
CallbackQueueRecycleExecute(t) ==
    /\ impl = "CallbackQueueRecycle"
    /\ \/ \* if(executing.exchange(true)) return true
          /\ pc[t] = "execute"
          /\ Mem_drained(obj, t)
          /\ obj' = [obj EXCEPT !.executing = TRUE]
          /\ IF obj.executing
                THEN CQReturn(t, "true")
                ELSE Goto(t, "test") /\ UNCHANGED <<loc, iter, env>>
          /\ UNCHANGED impl
       \/ \* hasMore = head != nullptr; while(hasMore)
          /\ pc[t] = "test"
          /\ loc' = [loc EXCEPT ![t].hasMore = Mem_load(obj, t, <<"head">>) # 0]
          /\ Goto(t, IF Mem_load(obj, t, <<"head">>) # 0 THEN "invoke" ELSE "finish")
          /\ UNCHANGED <<impl, obj, iter, env>>
       \/ \* if(head->callback()) ... else break
          /\ pc[t] = "invoke"
          /\ \E c \in Heap_read(obj, t, "data", Mem_load(obj, t, <<"head">>)) :
                IF c = 0
                   THEN /\ pc' = [u \in Threads |-> "crashed"]
                        /\ UNCHANGED <<impl, obj, loc, iter, env>>
                   ELSE \E r \in BOOLEAN :
                           /\ env' = CQ_invoked(env, c, r)
                           /\ Goto(t, IF r THEN "remove" ELSE "finish")
                           /\ UNCHANGED <<impl, obj, loc, iter>>
       \/ \* oldHead = head; tmp = oldHead; head = oldHead->next
          /\ pc[t] = "remove"
          /\ \E n \in Heap_read(obj, t, "next", Mem_load(obj, t, <<"head">>)) :
                obj' = Mem_store(obj, t, <<"head">>, n)
          /\ loc' = [loc EXCEPT ![t].oldHead = Mem_load(obj, t, <<"head">>)]
          /\ Goto(t, "cas")
          /\ UNCHANGED <<impl, iter, env>>
       \/ \* tail.compare_exchange_strong(tmp, oldHead->next)
          /\ pc[t] = "cas"
          /\ Mem_drained(obj, t)
          /\ \E n \in Heap_read(obj, t, "next", loc[t].oldHead) :
                obj' = IF obj.tail = loc[t].oldHead THEN [obj EXCEPT !.tail = n] ELSE obj
          /\ Goto(t, "recycle")
          /\ UNCHANGED <<impl, loc, iter, env>>
       \/ \* oldHead->callback = nullptr; oldHead->next = nullptr
          /\ pc[t] = "recycle"
          /\ obj' = Heap_write(Heap_write(obj, t, "data", loc[t].oldHead, 0),
                               t, "next", loc[t].oldHead, 0)
          /\ Goto(t, "pool_xchg")
          /\ UNCHANGED <<impl, loc, iter, env>>
       \/ \* oldPoolTail = poolTail.exchange(oldHead)
          /\ pc[t] = "pool_xchg"
          /\ Mem_drained(obj, t)
          /\ obj' = [obj EXCEPT !.poolTail = loc[t].oldHead]
          /\ loc' = [loc EXCEPT ![t].oldTail = obj.poolTail]
          /\ Goto(t, "pool_link")
          /\ UNCHANGED <<impl, iter, env>>
       \/ \* if(oldPoolTail != nullptr) oldPoolTail->next = oldHead;
          \* else poolHead.store(oldHead)
          /\ pc[t] = "pool_link"
          /\ IF loc[t].oldTail # 0
                THEN obj' = Heap_write(obj, t, "next", loc[t].oldTail, loc[t].oldHead)
                ELSE Mem_drained(obj, t) /\ obj' = [obj EXCEPT !.poolHead = loc[t].oldHead]
          /\ Goto(t, "retest")
          /\ UNCHANGED <<impl, loc, iter, env>>
       \/ \* hasMore = head != nullptr
          /\ pc[t] = "retest"
          /\ loc' = [loc EXCEPT ![t].hasMore = Mem_load(obj, t, <<"head">>) # 0]
          /\ Goto(t, IF Mem_load(obj, t, <<"head">>) # 0 THEN "invoke" ELSE "finish")
          /\ UNCHANGED <<impl, obj, iter, env>>
       \/ \* executing.store(false); return !hasMore
          /\ pc[t] = "finish"
          /\ Mem_drained(obj, t)
          /\ obj' = [obj EXCEPT !.executing = FALSE]
          /\ CQReturn(t, IF loc[t].hasMore THEN "false" ELSE "true")
          /\ UNCHANGED impl

\* ------------------------------------------------ CallbackQueueThreadSafe
\* obj = mutex, head, tail, recycleHead, recycleTail and the heap; every
\* access is made with the mutex held
CallbackQueueThreadSafe_new ==
    Heap_new @@ [mutex |-> FALSE, head |-> 0, tail |-> 0, recycleHead |-> 0, recycleTail |-> 0]

\* CallbackQueueThreadSafe::push
CallbackQueueThreadSafePush(t) ==
    /\ impl = "CallbackQueueThreadSafe"
    /\ \/ \* std::lock_guard<std::mutex> lock(mutex)
          /\ pc[t] = "push"
          /\ ~obj.mutex
          /\ obj' = [obj EXCEPT !.mutex = TRUE]
          /\ Goto(t, "locked")
          /\ UNCHANGED <<impl, loc, iter, env>>
       \/ \* the entry comes from the recycle list or from new; it is linked
          \* behind tail; the lock_guard releases the mutex
          /\ pc[t] = "locked"
          /\ \E n \in (IF obj.recycleHead # 0 THEN {obj.recycleHead} ELSE Heap_free(obj)) :
                LET taken ==
                        IF obj.recycleHead # 0
                           THEN [obj EXCEPT !.recycleHead = obj.next[n],
                                            !.recycleTail = IF obj.next[n] = 0 THEN 0 ELSE @,
                                            !.next[n] = 0, !.data[n] = loc[t].data]
                           ELSE Heap_alloc(obj, n, loc[t].data, 0)
                    linked ==
                        IF taken.tail # 0
                           THEN [taken EXCEPT !.next[taken.tail] = n]
                           ELSE [taken EXCEPT !.head = n]
                IN  obj' = [linked EXCEPT !.tail = n, !.mutex = FALSE]
          /\ CQReturn(t, "void")
          /\ UNCHANGED impl

\* CallbackQueueThreadSafe::execute
CallbackQueueThreadSafeExecute(t) ==
    /\ impl = "CallbackQueueThreadSafe"
    /\ \/ \* std::lock_guard<std::mutex> lock(mutex)
          /\ pc[t] = "execute"
          /\ ~obj.mutex
          /\ obj' = [obj EXCEPT !.mutex = TRUE]
          /\ Goto(t, "loop")
          /\ UNCHANGED <<impl, loc, iter, env>>
       \/ \* while(head != nullptr) { if(head->callback(args...)) { the head
          \* entry moves to the recycle list } else return false; }
          /\ pc[t] = "loop"
          /\ obj.head # 0
          /\ IF obj.data[obj.head] = 0 THEN CQThrow(t)
             ELSE \E r \in BOOLEAN :
                     /\ env' = CQ_invoked(env, obj.data[obj.head], r)
                     /\ loc' = [loc EXCEPT ![t].hasMore = ~r]
                     /\ IF r
                           THEN LET h == obj.head
                                    moved == [obj EXCEPT !.head = obj.next[h], !.next[h] = 0]
                                IN  /\ obj' = IF obj.recycleTail # 0
                                                 THEN [moved EXCEPT !.next[obj.recycleTail] = h,
                                                                    !.recycleTail = h]
                                                 ELSE [moved EXCEPT !.recycleHead = h,
                                                                    !.recycleTail = h]
                                    /\ UNCHANGED pc
                           ELSE Goto(t, "finish") /\ UNCHANGED obj
                     /\ UNCHANGED <<impl, iter>>
       \/ \* tail = nullptr; return true
          /\ pc[t] = "loop"
          /\ obj.head = 0
          /\ obj' = [obj EXCEPT !.tail = 0, !.mutex = FALSE]
          /\ CQReturn(t, "true")
          /\ UNCHANGED impl
       \/ \* return false: the lock_guard releases the mutex
          /\ pc[t] = "finish"
          /\ obj' = [obj EXCEPT !.mutex = FALSE]
          /\ CQReturn(t, "false")
          /\ UNCHANGED impl

\* ------------------------------------------------------ CallbackQueueLock
\* obj = head, tail, executing, mutex and the heap; execute reads head and
\* the callback of the head entry without the mutex
CallbackQueueLock_new ==
    Heap_new @@ [head |-> 0, tail |-> 0, executing |-> FALSE, mutex |-> FALSE]

\* CallbackQueueLock::push
CallbackQueueLockPush(t) ==
    /\ impl = "CallbackQueueLock"
    /\ \/ \* entry = new Entry(); entry->callback = callback
          /\ pc[t] = "push"
          /\ \E n \in Heap_free(obj) :
                /\ obj' = Heap_alloc(obj, n, loc[t].data, 0)
                /\ loc' = [loc EXCEPT ![t].entry = n]
          /\ Goto(t, "lock")
          /\ UNCHANGED <<impl, iter, env>>
       \/ \* std::lock_guard<std::mutex> lock(this->mutex)
          /\ pc[t] = "lock"
          /\ ~obj.mutex
          /\ Mem_drained(obj, t)
          /\ obj' = [obj EXCEPT !.mutex = TRUE]
          /\ Goto(t, "locked")
          /\ UNCHANGED <<impl, loc, iter, env>>
       \/ \* oldTail = tail; tail = entry
          /\ pc[t] = "locked"
          /\ obj' = [obj EXCEPT !.tail = loc[t].entry]
          /\ loc' = [loc EXCEPT ![t].oldTail = obj.tail]
          /\ Goto(t, "link")
          /\ UNCHANGED <<impl, iter, env>>
       \/ \* if(oldTail == nullptr) head = entry; else oldTail->next = entry
          /\ pc[t] = "link"
          /\ obj' = IF loc[t].oldTail = 0
                       THEN Mem_store(obj, t, <<"head">>, loc[t].entry)
                       ELSE Heap_write(obj, t, "next", loc[t].oldTail, loc[t].entry)
          /\ Goto(t, "unlock")
          /\ UNCHANGED <<impl, loc, iter, env>>
       \/ \* the lock_guard releases the mutex
          /\ pc[t] = "unlock"
          /\ Mem_drained(obj, t)
          /\ obj' = [obj EXCEPT !.mutex = FALSE]
          /\ CQReturn(t, "void")
          /\ UNCHANGED impl

\* CallbackQueueLock::execute
CallbackQueueLockExecute(t) ==
    /\ impl = "CallbackQueueLock"
    /\ \/ \* lock(mutex); if(executing) return true; executing = true; lock.unlock()
          /\ pc[t] = "execute"
          /\ ~obj.mutex
          /\ Mem_drained(obj, t)
          /\ obj' = [obj EXCEPT !.executing = TRUE]
          /\ IF obj.executing
                THEN CQReturn(t, "true")
                ELSE Goto(t, "test") /\ UNCHANGED <<loc, iter, env>>
          /\ UNCHANGED impl
       \/ \* hasMore = head != nullptr; while(hasMore)
          /\ pc[t] = "test"
          /\ loc' = [loc EXCEPT ![t].hasMore = Mem_load(obj, t, <<"head">>) # 0]
          /\ Goto(t, IF Mem_load(obj, t, <<"head">>) # 0 THEN "invoke" ELSE "finish")
          /\ UNCHANGED <<impl, obj, iter, env>>
       \/ \* if(head->callback()) ... else break
          /\ pc[t] = "invoke"
          /\ \E c \in Heap_read(obj, t, "data", Mem_load(obj, t, <<"head">>)) :
                IF c = 0 THEN CQThrow(t)
                ELSE \E r \in BOOLEAN :
                        /\ env' = CQ_invoked(env, c, r)
                        /\ Goto(t, IF r THEN "relock" ELSE "finish")
                        /\ UNCHANGED <<impl, obj, loc, iter>>
       \/ \* lock.lock()
          /\ pc[t] = "relock"
          /\ ~obj.mutex
          /\ Mem_drained(obj, t)
          /\ obj' = [obj EXCEPT !.mutex = TRUE]
          /\ Goto(t, "remove")
          /\ UNCHANGED <<impl, loc, iter, env>>
       \/ \* oldHead = head; head = oldHead->next; if(head == nullptr) tail = nullptr
          /\ pc[t] = "remove"
          /\ \E n \in Heap_read(obj, t, "next", Mem_load(obj, t, <<"head">>)) :
                obj' = [Mem_store(obj, t, <<"head">>, n)
                           EXCEPT !.tail = IF n = 0 THEN 0 ELSE @]
          /\ loc' = [loc EXCEPT ![t].oldHead = Mem_load(obj, t, <<"head">>)]
          /\ Goto(t, "delete")
          /\ UNCHANGED <<impl, iter, env>>
       \/ \* delete oldHead; hasMore = head != nullptr; lock.unlock()
          /\ pc[t] = "delete"
          /\ Mem_drained(obj, t)
          /\ obj' = [Heap_delete(obj, loc[t].oldHead) EXCEPT !.mutex = FALSE]
          /\ loc' = [loc EXCEPT ![t].hasMore = Mem_load(obj, t, <<"head">>) # 0]
          /\ Goto(t, IF Mem_load(obj, t, <<"head">>) # 0 THEN "invoke" ELSE "finish")
          /\ UNCHANGED <<impl, iter, env>>
       \/ \* return !hasMore
          /\ pc[t] = "finish"
          /\ CQReturn(t, IF loc[t].hasMore THEN "false" ELSE "true")
          /\ UNCHANGED <<impl, obj>>

\* -------------------------------------------------- CallbackQueueTwoParty
\* obj = head, recycleTail (used by execute), tail, recycleHead (used by
\* push) and the heap, as in QueueTwoPartyNoCritical
CallbackQueueTwoParty_new == QueueTwoPartyNoCritical_new(FALSE)

\* CallbackQueueTwoParty::push
CallbackQueueTwoPartyPush(t) ==
    /\ impl = "CallbackQueueTwoParty"
    /\ \/ \* if(recycleHead->next != nullptr)
          /\ pc[t] = "push"
          /\ \E n \in Heap_read(obj, t, "next", obj.recycleHead) :
                Goto(t, IF n # 0 THEN "recycle" ELSE "new")
          /\ UNCHANGED <<impl, obj, loc, iter, env>>
       \/ \* newNode = recycleHead; recycleHead = recycleHead->next
          /\ pc[t] = "recycle"
          /\ \E n \in Heap_read(obj, t, "next", obj.recycleHead) :
                obj' = [obj EXCEPT !.recycleHead = n]
          /\ loc' = [loc EXCEPT ![t].entry = obj.recycleHead]
          /\ Goto(t, "clear")
          /\ UNCHANGED <<impl, iter, env>>
       \/ \* newNode->next = nullptr
          /\ pc[t] = "clear"
          /\ obj' = Heap_write(obj, t, "next", loc[t].entry, 0)
          /\ Goto(t, "fill")
          /\ UNCHANGED <<impl, loc, iter, env>>
       \/ \* newNode = new Node()
          /\ pc[t] = "new"
          /\ \E n \in Heap_free(obj) :
                /\ obj' = Heap_alloc(obj, n, 0, 0)
                /\ loc' = [loc EXCEPT ![t].entry = n]
          /\ Goto(t, "fill")
          /\ UNCHANGED <<impl, iter, env>>
       \/ \* oldTail = tail; oldTail->callback = callback; tail = newNode
          /\ pc[t] = "fill"
          /\ obj' = [Heap_write(obj, t, "data", obj.tail, loc[t].data)
                        EXCEPT !.tail = loc[t].entry]
          /\ loc' = [loc EXCEPT ![t].oldTail = obj.tail]
          /\ Goto(t, "link")
          /\ UNCHANGED <<impl, iter, env>>
       \/ \* oldTail->next = newNode
          /\ pc[t] = "link"
          /\ obj' = Heap_write(obj, t, "next", loc[t].oldTail, loc[t].entry)
          /\ CQReturn(t, "void")
          /\ UNCHANGED impl

\* CallbackQueueTwoParty::execute (cb is kept in loc.data, oldRecycleTail in
\* loc.oldTail)
CallbackQueueTwoPartyExecute(t) ==
    /\ impl = "CallbackQueueTwoParty"
    /\ \/ \* while(head->next != nullptr) ...; return true
          /\ pc[t] = "execute"
          /\ obj.head # 0
          /\ \E n \in Heap_read(obj, t, "next", obj.head) :
                IF n = 0
                   THEN CQReturn(t, "true")
                   ELSE Goto(t, "advance") /\ UNCHANGED <<loc, iter, env>>
          /\ UNCHANGED <<impl, obj>>
       \/ \* oldHead = head; head = head->next
          /\ pc[t] = "advance"
          /\ obj.head # 0
          /\ \E n \in Heap_read(obj, t, "next", obj.head) :
                obj' = [obj EXCEPT !.head = n]
          /\ loc' = [loc EXCEPT ![t].oldHead = obj.head]
          /\ Goto(t, "read")
          /\ UNCHANGED <<impl, iter, env>>
       \/ \* cb = oldHead->callback; if(cb == nullptr) throw
          /\ pc[t] = "read"
          /\ \E c \in Heap_read(obj, t, "data", loc[t].oldHead) :
                IF c = 0 THEN CQThrow(t)
                ELSE /\ loc' = [loc EXCEPT ![t].data = c]
                     /\ Goto(t, "unlink")
                     /\ UNCHANGED <<impl, obj, iter, env>>
       \/ \* oldHead->next = nullptr; oldRecycleTail = recycleTail; recycleTail = oldHead
          /\ pc[t] = "unlink"
          /\ obj' = [Heap_write(obj, t, "next", loc[t].oldHead, 0)
                        EXCEPT !.recycleTail = loc[t].oldHead]
          /\ loc' = [loc EXCEPT ![t].oldTail = obj.recycleTail]
          /\ Goto(t, "retire")
          /\ UNCHANGED <<impl, iter, env>>
       \/ \* oldRecycleTail->next = oldHead
          /\ pc[t] = "retire"
          /\ obj' = Heap_write(obj, t, "next", loc[t].oldTail, loc[t].oldHead)
          /\ Goto(t, "invoke")
          /\ UNCHANGED <<impl, loc, iter, env>>
       \/ \* if(!cb(args...)) return false
          /\ pc[t] = "invoke"
          /\ \E r \in BOOLEAN :
                /\ env' = CQ_invoked(env, loc[t].data, r)
                /\ Goto(t, IF r THEN "execute" ELSE "finish")
          /\ UNCHANGED <<impl, obj, loc, iter>>
       \/ \* return false
          /\ pc[t] = "finish"
          /\ CQReturn(t, "false")
          /\ UNCHANGED <<impl, obj>>
       \/ \* head->next with head == nullptr (after a concurrent execute): the
          \* program ends
          /\ pc[t] \in {"execute", "advance"}
          /\ obj.head = 0
          /\ pc' = [u \in Threads |-> "crashed"]
          /\ UNCHANGED <<impl, obj, loc, iter, env>>

\* ------------------------------------- one caller of push and execute
CQInit ==
    /\ impl \in CallbackQueueImpls
    /\ obj = CASE impl = "CallbackQueueNaive" -> CallbackQueueNaive_new
               [] impl = "CallbackQueueRecycle" -> CallbackQueueRecycle_new
               [] impl = "CallbackQueueThreadSafe" -> CallbackQueueThreadSafe_new
               [] impl = "CallbackQueueLock" -> CallbackQueueLock_new
               [] impl = "CallbackQueueTwoParty" -> CallbackQueueTwoParty_new
    /\ pc = [t \in Threads |-> IF t = 1 THEN "idle" ELSE "done"]
    /\ loc = [t \in Threads |-> CQIdle]
    /\ iter = [t \in Threads |-> 0]
    /\ env = [pending |-> <<>>, invoked |-> <<>>, failed |-> 0, owed |-> 0, ret |-> "none"]

CQNext ==
    \E t \in Threads :
        \/ CQCall(t)
        \/ CallbackQueueNaivePush(t)
        \/ CallbackQueueNaiveExecute(t)
        \/ CallbackQueueRecyclePush(t)
        \/ CallbackQueueRecycleExecute(t)
        \/ CallbackQueueThreadSafePush(t)
        \/ CallbackQueueThreadSafeExecute(t)
        \/ CallbackQueueLockPush(t)
        \/ CallbackQueueLockExecute(t)
        \/ CallbackQueueTwoPartyPush(t)
        \/ CallbackQueueTwoPartyExecute(t)

SpecCQ == CQInit /\ [][CQNext]_vars

\* The callbacks in a callback queue, first to be invoked first.  The last
\* node of a CallbackQueueTwoParty is the dummy that the next push fills.
CQ_contents(o) ==
    LET l == Heap_list(o, o.head, QMaxNodes)
        n == IF impl = "CallbackQueueTwoParty" THEN Len(l) - 1 ELSE Len(l)
    IN  [i \in 1..n |-> o.data[l[i]]]

\* No call of push or execute is running.
CQQuiet == \A t \in Threads : pc[t] \in {"idle", "done"}

\* C10: in every callback queue, when a callback returns false during
\* execute(), draining stops at once, execute() returns false, the callback
\* and all entries pushed after it stay in the queue in their order, and the
\* next execute() invokes that callback first.  (failed is the first callback
\* that returned false in the running or last execute(), owed the one of the
\* execute() before; ret is "none" while execute() runs.)
C10_FalseCallbackStaysFirst ==
    /\ env.failed # 0 => env.invoked[Len(env.invoked)] = env.failed
    /\ env.failed # 0 /\ env.ret # "none" => env.ret = "false"
    /\ env.failed # 0 /\ env.ret # "none" /\ CQQuiet =>
          /\ env.pending # <<>>
          /\ env.pending[1] = env.failed
          /\ CQ_contents(obj) = env.pending
    /\ env.owed # 0 /\ env.ret # "none" =>
          /\ env.invoked # <<>>
          /\ env.invoked[1] = env.owed

\* C10 for CallbackQueueNaive and CallbackQueueThreadSafe alone: there it holds.
C10_NaiveAndThreadSafe ==
    impl \in {"CallbackQueueNaive", "CallbackQueueThreadSafe"} => C10_FalseCallbackStaysFirst

\* The three other classes, one by one.
C10_Recycle == impl = "CallbackQueueRecycle" => C10_FalseCallbackStaysFirst
C10_Lock == impl = "CallbackQueueLock" => C10_FalseCallbackStaysFirst
C10_TwoParty == impl = "CallbackQueueTwoParty" => C10_FalseCallbackStaysFirst

\* A step in which execute() returns: it returns true only when every
\* callback pushed so far has returned true and the queue is empty, and false
\* only when a callback returned false in it.
CQExecuteDrained ==
    (env.ret = "none" /\ env'.ret # "none") =>
        IF env'.ret = "true"
           THEN env.pending = <<>> /\ CQ_contents(obj') = <<>>
           ELSE env.failed # 0

\* C11: in every callback queue, an execute() called when no drain is in
\* progress drains again.  So after push C1, C2, C3 and an execute() stopped
\* by C2, the next execute() invokes C2 and C3 and returns true with the
\* queue empty.
C11_NextExecuteDrainsAgain == [][CQExecuteDrained]_vars

\* C11 for CallbackQueueNaive and CallbackQueueThreadSafe alone: there it holds.
C11_NaiveAndThreadSafe ==
    [][(impl \in {"CallbackQueueNaive", "CallbackQueueThreadSafe"}) => CQExecuteDrained]_vars

\* ---------------------- two threads calling execute() on a callback queue
\* Thread t is inside a drain: its execute() has passed its first step.
CQDraining(t) == loc[t].op = "execute" /\ pc[t] # "execute"

\* a thread calls push(callback) or execute() as in CQCall; the second
\* thread only calls execute().  push is called while no other call runs and
\* no call starts during a push, so that the concurrent calls are executes.
CQ2Call(t) ==
    /\ \A u \in Threads \ {t} : loc[u].op # "push"
    /\ CQCall(t)
    /\ loc'[t].op = "push" => t = 1 /\ \A u \in Threads \ {t} : pc[u] \in {"idle", "done"}

\* Two threads, MaxCalls calls each.
CQ2Init ==
    /\ impl \in CallbackQueueImpls
    /\ obj = CASE impl = "CallbackQueueNaive" -> CallbackQueueNaive_new
               [] impl = "CallbackQueueRecycle" -> CallbackQueueRecycle_new
               [] impl = "CallbackQueueThreadSafe" -> CallbackQueueThreadSafe_new
               [] impl = "CallbackQueueLock" -> CallbackQueueLock_new
               [] impl = "CallbackQueueTwoParty" -> CallbackQueueTwoParty_new
    /\ pc = [t \in Threads |-> IF t <= 2 THEN "idle" ELSE "done"]
    /\ loc = [t \in Threads |-> CQIdle]
    /\ iter = [t \in Threads |-> MaxCbCalls - MaxCalls]
    /\ env = [pending |-> <<>>, invoked |-> <<>>, failed |-> 0, owed |-> 0, ret |-> "none"]

CQ2Next ==
    \E t \in Threads :
        \/ CQ2Call(t)
        \/ CallbackQueueNaivePush(t)
        \/ CallbackQueueNaiveExecute(t)
        \/ CallbackQueueRecyclePush(t)
        \/ CallbackQueueRecycleExecute(t)
        \/ CallbackQueueThreadSafePush(t)
        \/ CallbackQueueThreadSafeExecute(t)
        \/ CallbackQueueLockPush(t)
        \/ CallbackQueueLockExecute(t)
        \/ CallbackQueueTwoPartyPush(t)
        \/ CallbackQueueTwoPartyExecute(t)

SpecCQ2 == CQ2Init /\ [][CQ2Next]_vars

\* The callback that thread t is about to invoke.
CQAboutToInvoke(t) ==
    IF impl = "CallbackQueueThreadSafe"
       THEN (IF pc[t] = "loop" /\ obj.head # 0 THEN {obj.data[obj.head]} ELSE {})
    ELSE IF pc[t] # "invoke" THEN {}
    ELSE IF impl = "CallbackQueueTwoParty" THEN {loc[t].data}
    ELSE {obj.data[obj.head]}

\* C12: in every callback queue, when execute() is called while another
\* thread is inside a drain, exactly one drain runs: never two threads are
\* inside a drain, no thread waits at the entry of execute() for a mutex
\* while its holder is about to invoke a callback, and no thread is about to
\* invoke a callback that has already returned true.
C12_OneDrainAtATime ==
    /\ Cardinality({t \in Threads : CQDraining(t)}) <= 1
    /\ \A t \in Threads :
          /\ pc[t] = "execute" /\ "mutex" \in DOMAIN obj /\ obj.mutex
                => \A u \in Threads \ {t} : CQAboutToInvoke(u) = {}
          /\ \A c \in CQAboutToInvoke(t) : \E i \in DOMAIN env.pending : env.pending[i] = c

\* C12 for the classes with an executing flag: Naive and Lock satisfy it whole,
\* Recycle keeps to one drain at a time.
C12_GuardedClasses ==
    /\ impl \in {"CallbackQueueNaive", "CallbackQueueLock"} => C12_OneDrainAtATime
    /\ impl = "CallbackQueueRecycle"
          => Cardinality({t \in Threads : CQDraining(t)}) <= 1


(***************************************************************************)
(* Runs in which every callback returns true.                              *)
(***************************************************************************)

\* A step of the sequential caller in which no callback returns false.
CQTrueNext == CQNext /\ env'.failed = 0

SpecCQTrue == CQInit /\ [][CQTrueNext]_vars

\* The callbacks were invoked in the order of their pushes, each one once
\* (the caller numbers its callbacks in the order it pushes them).
CQ_in_push_order(s) == \A i, j \in DOMAIN s : i < j => s[i] < s[j]

CQExecuteAllTrue ==
    /\ CQ_in_push_order(env'.invoked)
    /\ \A t \in Threads : pc'[t] # "crashed"
    /\ (env.ret = "none" /\ env'.ret # "none") =>
          /\ env'.ret = "true"
          /\ env.pending = <<>>
          /\ CQ_contents(obj') = <<>>

\* C13: in every callback queue, in a run where every callback returns
\* true, execute() invokes each queued callback exactly once in the order of
\* the pushes, removes them all, and returns true with the queue empty.
C13_AllTrueDrainsInOrder == [][CQExecuteAllTrue]_vars

\* C13 class by class.
C13_Naive == [][(impl = "CallbackQueueNaive") => CQExecuteAllTrue]_vars
C13_ThreadSafe == [][(impl = "CallbackQueueThreadSafe") => CQExecuteAllTrue]_vars
C13_TwoParty == [][(impl = "CallbackQueueTwoParty") => CQExecuteAllTrue]_vars
C13_Recycle == [][(impl = "CallbackQueueRecycle") => CQExecuteAllTrue]_vars
C13_Lock == [][(impl = "CallbackQueueLock") => CQExecuteAllTrue]_vars

(***************************************************************************)
(* ReadOrWriteAccess in single-actor mode under a fair scheduler: each     *)
(* thread that can take a step eventually takes one, and a buffered store  *)
(* eventually reaches memory.                                              *)
(***************************************************************************)
SpecRWFair ==
    /\ RWInit
    /\ [][RWNext]_vars
    /\ \A t \in {Reader, Writer} :
          /\ WF_vars(RWAccess(t) \/ RunReadWrite(t))
          /\ WF_vars(MemFlush(t))

\* A side is spinning in the loop of accessRead / accessWrite.
RWSpinning(t) == pc[t] \in {"wait_flag", "wait_turn"}

\* C14: with one reader and one writer in single-actor mode, the protocol is
\* deadlock-free: whenever a side is spinning in accessRead / accessWrite,
\* some side gets inside its critical section later on; the two sides are
\* never both blocked forever.
C14_DeadlockFree ==
    (\E t \in {Reader, Writer} : RWSpinning(t)) ~> (\E t \in {Reader, Writer} : RWInside(t))

\* Both sides are spinning, each having found the flag of the other set.
C14_Witness == pc[Reader] = "wait_turn" /\ pc[Writer] = "wait_turn"

\* While side t spins, the other side has entered at most once since t
\* started to wait.
RWOvertakenAtMostOnce(t) ==
    RWSpinning(t) => RW_entries(IF t = Reader THEN Writer ELSE Reader) - env.since[t] <= 1

\* C15: with one reader and one writer in single-actor mode under fair
\* scheduling, a side that waits in accessRead / accessWrite eventually
\* enters its critical section, and the other side enters at most once while
\* it waits.
C15_StarvationFree ==
    /\ [](\A t \in {Reader, Writer} : RWOvertakenAtMostOnce(t))
    /\ \A t \in {Reader, Writer} : RWSpinning(t) ~> RWInside(t)

\* The parts of C15: the waiting side enters in the end (this holds), and
\* it is overtaken at most once (this holds without store buffering).
C15_EventuallyEnters == \A t \in {Reader, Writer} : RWSpinning(t) ~> RWInside(t)
C15_OvertakenUnbuffered ==
    ~obj.buffered => \A t \in {Reader, Writer} : RWOvertakenAtMostOnce(t)

\* =====================================================================
\* ReadOrWriteAccess, multithreaded = true (ThreadSynchronization.hpp):
\* every thread is a reader or a writer, and the accesses go through the
\* std::shared_mutex mtx.
\* obj = [multithreaded, simultaneousReads, mtx], mtx = [owner, shared]
\* with owner the thread that holds mtx exclusively (0: none) and shared the
\* threads that hold it shared.  loc[t] is the group of thread t.
\* =====================================================================

\* The shared lock can be given although a thread owns it exclusively.
SharedMutex_may_lock_shared_mut(mtx) == TRUE

\* std::shared_mutex: lock_shared() returns when no thread owns it exclusively
SharedMutex_may_lock_shared(mtx) == mtx.owner = 0

\* std::shared_mutex: lock() returns when no thread holds it in any way
SharedMutex_may_lock(mtx) == mtx.owner = 0 /\ mtx.shared = {}

RWMInit ==
    /\ impl = "ReadOrWriteAccess"
    /\ \E s \in BOOLEAN :
          obj = [multithreaded |-> TRUE, simultaneousReads |-> s,
                 mtx |-> [owner |-> 0, shared |-> {}]]
    /\ pc = [t \in Threads |-> "access"]
    /\ loc \in [Threads -> {"reader", "writer"}]
    /\ iter = [t \in Threads |-> 0]
    /\ env = <<>>

\* accessRead() of a reader, multithreaded branch
RWMAccessRead(t) ==
    /\ pc[t] = "access"
    /\ loc[t] = "reader"
    /\ obj.multithreaded
    /\ IF obj.simultaneousReads
          THEN \* mtx.lock_shared()
               /\ SharedMutex_may_lock_shared(obj.mtx)
               /\ obj' = [obj EXCEPT !.mtx.shared = @ \cup {t}]
          ELSE \* mtx.lock()
               /\ SharedMutex_may_lock(obj.mtx)
               /\ obj' = [obj EXCEPT !.mtx.owner = t]
    /\ Goto(t, "inside")
    /\ UNCHANGED <<impl, loc, iter, env>>

\* accessWrite() of a writer, multithreaded branch: mtx.lock()
RWMAccessWrite(t) ==
    /\ pc[t] = "access"
    /\ loc[t] = "writer"
    /\ obj.multithreaded
    /\ SharedMutex_may_lock(obj.mtx)
    /\ obj' = [obj EXCEPT !.mtx.owner = t]
    /\ Goto(t, "inside")
    /\ UNCHANGED <<impl, loc, iter, env>>

\* the thread uses the resource
RWMUse(t) ==
    /\ pc[t] = "inside"
    /\ Goto(t, "release")
    /\ UNCHANGED <<impl, obj, loc, iter, env>>

\* releaseRead(), multithreaded branch: mtx.unlock_shared() or mtx.unlock()
RWMReleaseRead(t) ==
    /\ pc[t] = "release"
    /\ loc[t] = "reader"
    /\ obj.multithreaded
    /\ obj' = IF obj.simultaneousReads
                 THEN [obj EXCEPT !.mtx.shared = @ \ {t}]
                 ELSE [obj EXCEPT !.mtx.owner = 0]
    /\ NextRound(t, "access")
    /\ UNCHANGED <<impl, loc, env>>

\* releaseWrite(), multithreaded branch: mtx.unlock()
RWMReleaseWrite(t) ==
    /\ pc[t] = "release"
    /\ loc[t] = "writer"
    /\ obj.multithreaded
    /\ obj' = [obj EXCEPT !.mtx.owner = 0]
    /\ NextRound(t, "access")
    /\ UNCHANGED <<impl, loc, env>>

RWMNext ==
    \E t \in Threads :
        \/ RWMAccessRead(t)
        \/ RWMAccessWrite(t)
        \/ RWMUse(t)
        \/ RWMReleaseRead(t)
        \/ RWMReleaseWrite(t)

SpecRWM == RWMInit /\ [][RWMNext]_vars

\* C16: in multithreaded mode with any number of readers and writers, a
\* writer that is inside excludes every other reader and writer; with
\* simultaneousReads readers may be inside together but never with a writer;
\* without simultaneousReads at most one thread is inside.
C16_MultithreadedExclusion ==
    /\ \A t \in Threads : RWInside(t) /\ loc[t] = "writer"
                             => \A u \in Threads \ {t} : ~RWInside(u)
    /\ ~obj.simultaneousReads => Cardinality({t \in Threads : RWInside(t)}) <= 1

\* Two readers are inside together while a writer waits.
C16_Witness ==
    /\ obj.simultaneousReads
    /\ \E t, u, w \in Threads :
          /\ t # u
          /\ loc[t] = "reader" /\ loc[u] = "reader" /\ loc[w] = "writer"
          /\ RWInside(t) /\ RWInside(u) /\ pc[w] = "access"

\* =====================================================================
\* AtomicTwoParty<int32_t> (Atomic.hpp), one thread for side A and one for
\* side B as in runFetchAddTest (AtomicTest.cpp).
\* obj = value and the fields of its ReadOrWriteAccess lock (single-actor
\* mode): side A takes the read access, side B the write access.  value is a
\* plain field.  env.hist[t] is the history of the calls thread t has
\* completed, each with its result.
\* =====================================================================

\* Largest argument of a call.
AtomicMaxVal == 1
\* Number of calls each of the two threads makes.
MaxAtomicCalls == 1

\* The calls: the method, its argument (desired for compareExchange) and
\* expected.
AtomicCalls ==
    [op : {"load"}, arg : {0}, expected : {0}]
    \cup [op : {"store", "exchange"}, arg : 0..AtomicMaxVal, expected : {0}]
    \cup [op : {"fetchAdd", "fetchSub"}, arg : 1..AtomicMaxVal, expected : {0}]
    \cup [op : {"compareExchange"}, arg : 0..AtomicMaxVal, expected : 0..AtomicMaxVal]

\* A call on an atomic variable that holds v: the value it leaves and the
\* result it returns (true is 1, false and void are 0).
Atomic_apply(c, v) ==
    CASE c.op = "load" -> [value |-> v, ret |-> v]
      [] c.op = "store" -> [value |-> c.arg, ret |-> 0]
      [] c.op = "fetchAdd" -> [value |-> v + c.arg, ret |-> v]
      [] c.op = "fetchSub" -> [value |-> v - c.arg, ret |-> v]
      [] c.op = "exchange" -> [value |-> c.arg, ret |-> v]
      [] c.op = "compareExchange" ->
            IF v = c.expected THEN [value |-> c.arg, ret |-> 1] ELSE [value |-> v, ret |-> 0]

\* The locals of a call; after is the number of calls the other thread had
\* completed when the call began.
AtomicIdle == [op |-> "none", arg |-> 0, expected |-> 0, tmp |-> 0, after |-> 0]

A2Init ==
    /\ impl = "AtomicTwoParty"
    /\ \E b \in BOOLEAN : obj = RW_new(b) @@ [value |-> 0]
    /\ pc = [t \in Threads |-> IF t \in {Reader, Writer} THEN "idle" ELSE "done"]
    /\ loc = [t \in Threads |-> AtomicIdle]
    /\ iter = [t \in Threads |-> MaxIter - MaxAtomicCalls]
    /\ env = [hist |-> [t \in {Reader, Writer} |-> <<>>]]

\* thread t calls a method of its side
AtomicCall(t) ==
    /\ impl = "AtomicTwoParty"
    /\ pc[t] = "idle"
    /\ \E c \in AtomicCalls :
          loc' = [loc EXCEPT ![t] = c @@ [tmp |-> 0,
                     after |-> Len(env.hist[IF t = Reader THEN Writer ELSE Reader])]]
    /\ Goto(t, "access")
    /\ UNCHANGED <<impl, obj, iter, env>>

\* lock.releaseRead() / lock.releaseWrite(), and the call returns ret
AtomicReturn(t, ret) ==
    /\ obj' = Mem_store(obj, t, RW_side(t).mine, FALSE)
    /\ env' = [env EXCEPT !.hist[t] =
                  Append(@, [op |-> loc[t].op, arg |-> loc[t].arg,
                             expected |-> loc[t].expected, ret |-> ret,
                             after |-> loc[t].after])]
    /\ NextRound(t, "idle")
    /\ loc' = [loc EXCEPT ![t] = AtomicIdle]
    /\ UNCHANGED impl

\* storeA / storeB, after lock.accessRead() / lock.accessWrite()
AtomicTwoPartyStore(t) ==
    /\ impl = "AtomicTwoParty"
    /\ loc[t].op = "store"
    /\ \/ \* this->value = value
          /\ pc[t] = "inside"
          /\ obj' = Mem_store(obj, t, <<"value">>, loc[t].arg)
          /\ Goto(t, "release")
          /\ UNCHANGED <<impl, loc, iter, env>>
       \/ /\ pc[t] = "release"
          /\ AtomicReturn(t, 0)

\* loadA / loadB
AtomicTwoPartyLoad(t) ==
    /\ impl = "AtomicTwoParty"
    /\ loc[t].op = "load"
    /\ \/ \* T tmp = value
          /\ pc[t] = "inside"
          /\ loc' = [loc EXCEPT ![t].tmp = Mem_load(obj, t, <<"value">>)]
          /\ Goto(t, "release")
          /\ UNCHANGED <<impl, obj, iter, env>>
       \/ \* return tmp
          /\ pc[t] = "release"
          /\ AtomicReturn(t, loc[t].tmp)

\* fetchAddA/B, fetchSubA/B, exchangeA/B
AtomicTwoPartyFetch(t) ==
    /\ impl = "AtomicTwoParty"
    /\ loc[t].op \in {"fetchAdd", "fetchSub", "exchange"}
    /\ \/ \* T tmp = this->value
          /\ pc[t] = "inside"
          /\ loc' = [loc EXCEPT ![t].tmp = Mem_load(obj, t, <<"value">>)]
          /\ Goto(t, "update")
          /\ UNCHANGED <<impl, obj, iter, env>>
       \/ \* this->value += value / this->value -= value / this->value = value
          /\ pc[t] = "update"
          /\ obj' = Mem_store(obj, t, <<"value">>,
                              Atomic_apply(loc[t], Mem_load(obj, t, <<"value">>)).value)
          /\ Goto(t, "release")
          /\ UNCHANGED <<impl, loc, iter, env>>
       \/ \* return tmp
          /\ pc[t] = "release"
          /\ AtomicReturn(t, loc[t].tmp)

\* compareExchangeA / compareExchangeB
AtomicTwoPartyCompareExchange(t) ==
    /\ impl = "AtomicTwoParty"
    /\ loc[t].op = "compareExchange"
    /\ \/ \* if(this->value == expected)
          /\ pc[t] = "inside"
          /\ loc' = [loc EXCEPT ![t].tmp =
                        IF Mem_load(obj, t, <<"value">>) = loc[t].expected THEN 1 ELSE 0]
          /\ Goto(t, IF Mem_load(obj, t, <<"value">>) = loc[t].expected
                        THEN "desired" ELSE "release")
          /\ UNCHANGED <<impl, obj, iter, env>>
       \/ \* this->value = desired
          /\ pc[t] = "desired"
          /\ obj' = Mem_store(obj, t, <<"value">>, loc[t].arg)
          /\ Goto(t, "release")
          /\ UNCHANGED <<impl, loc, iter, env>>
       \/ \* return true / return false
          /\ pc[t] = "release"
          /\ AtomicReturn(t, loc[t].tmp)

A2Next ==
    \E t \in {Reader, Writer} :
        \/ AtomicCall(t)
        \/ impl = "AtomicTwoParty" /\ RWAccess(t)
        \/ AtomicTwoPartyStore(t)
        \/ AtomicTwoPartyLoad(t)
        \/ AtomicTwoPartyFetch(t)
        \/ AtomicTwoPartyCompareExchange(t)
        \/ MemFlush(t)

SpecA2 == A2Init /\ [][A2Next]_vars

\* Both threads have made their calls and every store has reached memory.
A2Finished ==
    /\ \A t \in {Reader, Writer} : pc[t] = "done" /\ obj.sb[t] = <<>>

\* C17: when one thread makes n fetchAddA(1) calls and another n
\* fetchAddB(1) calls on an AtomicTwoParty that starts at 0, the value is 2n
\* after both have finished (n is MaxAtomicCalls).
C17_NoIncrementLost ==
    /\ A2Finished
    /\ \A t \in {Reader, Writer} : \A i \in DOMAIN env.hist[t] :
          env.hist[t][i].op = "fetchAdd" /\ env.hist[t][i].arg = 1
    => obj.value = 2 * MaxAtomicCalls

\* C17 without store buffering: there it holds.
C17_Unbuffered == ~obj.buffered => C17_NoIncrementLost

\* The calls after the first i of side A and the first j of side B can be
\* put into one sequence, each side's calls in their order and no call before
\* a call that had returned when it began, that on an atomic variable holding
\* v gives each call its result and leaves the value final.
RECURSIVE Atomic_sequential(_, _, _, _)
Atomic_sequential(i, j, v, final) ==
    LET a == env.hist[Reader]
        b == env.hist[Writer]
    IN  IF i = Len(a) /\ j = Len(b) THEN v = final
        ELSE \/ /\ i < Len(a)
                /\ a[i + 1].after <= j
                /\ Atomic_apply(a[i + 1], v).ret = a[i + 1].ret
                /\ Atomic_sequential(i + 1, j, Atomic_apply(a[i + 1], v).value, final)
             \/ /\ j < Len(b)
                /\ b[j + 1].after <= i
                /\ Atomic_apply(b[j + 1], v).ret = b[j + 1].ret
                /\ Atomic_sequential(i, j + 1, Atomic_apply(b[j + 1], v).value, final)

\* C18: with one side-A thread and one side-B thread, every operation of an
\* AtomicTwoParty acts atomically on the one value: the results of the calls
\* and the value they leave are those of some sequential order of the calls
\* on an atomic variable, in which no call comes before a call that had
\* returned when it began.
C18_CallsAreAtomic ==
    A2Finished => Atomic_sequential(0, 0, 0, obj.value)

\* C18 without store buffering: there it holds.
C18_Unbuffered == ~obj.buffered => C18_CallsAreAtomic

\* C19: in CountingLockCompSwap and CountingLockFetch the counter, whenever
\* it is observed (getCounter loads it at any time, also while acquire and
\* release calls of other threads are in flight), is within 0..max.
C19_CounterWithinBounds ==
    impl \in {"CountingLockCompSwap", "CountingLockFetch"}
        => obj.counter >= 0 /\ obj.counter <= obj.maxCounter

\* C19 for CountingLockCompSwap alone: there it holds.
C19_CompSwap == impl = "CountingLockCompSwap" => C19_CounterWithinBounds

(***************************************************************************)
(* Callers that also call release() without holding a permit.  iter[t] is  *)
(* the number of such calls thread t has made; a thread makes one at most  *)
(* and makes no other call after it.                                       *)
(***************************************************************************)

\* The threads that hold a permit: between a successful acquire() and the
\* decrement of their release().
CLPermitHolders == {t \in CLHolders : iter[t] = 0}

\* thread t, which holds no permit, calls release() while no permit is held
CLReleaseUnheld(t) ==
    /\ pc[t] = "idle"
    /\ iter[t] = 0
    /\ CLPermitHolders = {}
    /\ iter' = [iter EXCEPT ![t] = 1]
    /\ Goto(t, "release")
    /\ UNCHANGED <<impl, obj, loc, env>>

\* Thread t may take a step: no other thread has called release() without a
\* permit and not made its first access to the counter yet (the call itself
\* touches nothing shared, so it counts as made at that access).
CLUnheldFirst(t) == \A u \in Threads \ {t} : ~(iter[u] = 1 /\ pc[u] = "release")

CLRNext ==
    \E t \in Threads :
        \/ CLUnheldFirst(t) /\ iter[t] = 0 /\ RunCountingLock(t)
        \/ CLUnheldFirst(t) /\ CLReleaseUnheld(t)
        \/ CLUnheldFirst(t) /\ CompSwapAcquire(t)
        \/ CLUnheldFirst(t) /\ CompSwapRelease(t)
        \/ CLUnheldFirst(t) /\ FetchAcquire(t)
        \/ CLUnheldFirst(t) /\ FetchRelease(t)
        \/ CLUnheldFirst(t) /\ SemaphoreAcquire(t)
        \/ CLUnheldFirst(t) /\ SemaphoreRelease(t)

SpecCLR == CLInit /\ [][CLRNext]_vars

\* C20: in every CountingLock, a release() that is called when no permit is
\* held reports an error (it does not return normally), and it never makes
\* more than max permits available: at most max threads hold a permit.
C20_OverReleaseIsReported ==
    /\ \A t \in Threads : iter[t] = 1 => pc[t] # "idle"
    /\ Cardinality(CLPermitHolders) <= obj.maxCounter

\* C20 class by class.
C20_CompSwap == impl = "CountingLockCompSwap" => C20_OverReleaseIsReported
C20_Fetch == impl = "CountingLockFetch" => C20_OverReleaseIsReported
C20_Semaphore == impl = "CountingLockSemaphore" => C20_OverReleaseIsReported

(***************************************************************************)
(* The counting locks under a fair scheduler: a thread inside acquire() or *)
(* release(), or between the two, eventually takes its next step.  Nothing *)
(* obliges cv.wait to wake without a notification, nor a thread to call    *)
(* acquire() again.                                                        *)
(***************************************************************************)
SpecCLFair ==
    /\ CLInit
    /\ [][CLNext]_vars
    /\ \A t \in Threads :
          WF_vars(/\ pc[t] \notin {"idle", "waiting"}
                  /\ \/ RunCountingLock(t)
                     \/ CompSwapAcquire(t)
                     \/ CompSwapRelease(t)
                     \/ FetchAcquire(t)
                     \/ FetchRelease(t)
                     \/ SemaphoreAcquire(t)
                     \/ SemaphoreRelease(t))

\* C21: in CountingLockCompSwap and CountingLockFetch, when a thread waits in
\* acquire(block = true) and a release() has made a permit available, some
\* acquire obtains the permit and returns true later on: the notification of
\* the release is not lost between the failed attempt and the wait.
C21_ReleaseWakesWaiter ==
    (/\ impl \in {"CountingLockCompSwap", "CountingLockFetch"}
     /\ \E t \in Threads : pc[t] = "waiting"
     /\ obj.counter < obj.maxCounter)
        ~> (\E t \in Threads : pc[t] = "enter")

\* A step inside a non-blocking acquire(): with the counter at max (or above)
\* the attempt fails, and the failed call returns.
CLTryAcquireFails ==
    \A t \in Threads :
    /\ pc[t] = "acquire" /\ ~loc[t].block /\ obj.counter >= obj.maxCounter /\ pc'[t] # pc[t]
          => pc'[t] \in {"idle", "acq_undo"}
    /\ pc[t] = "acq_undo" /\ ~loc[t].block /\ pc'[t] # pc[t] => pc'[t] = "idle"

\* C22: in CountingLockCompSwap and CountingLockFetch, acquire(false) called
\* with the counter at max returns false without waiting and leaves the
\* counter as it was, and an acquire that returns true has claimed exactly
\* one permit: the counter is the number of permits held plus the attempts
\* of CountingLockFetch that are still to be taken back.
C22_TryAcquire ==
    /\ [](impl \in {"CountingLockCompSwap", "CountingLockFetch"} =>
            /\ \A t \in Threads :
                  ~loc[t].block =>
                     pc[t] \notin {"acq_lock", "acq_wait", "acq_cvwait", "waiting", "woken"}
            /\ obj.counter = Cardinality(CLHolders)
                                + Cardinality({t \in Threads : pc[t] = "acq_undo"}))
    /\ [][(impl \in {"CountingLockCompSwap", "CountingLockFetch"}) => CLTryAcquireFails]_vars

\* All permits are held and a non-blocking attempt of CountingLockFetch has
\* just failed.
C22_Witness ==
    /\ Cardinality(CLHolders) = obj.maxCounter
    /\ \E t \in Threads : pc[t] = "acq_undo" /\ ~loc[t].block

\* CountingLockFetch::close, called by a thread that is in no other call
FetchClose(t) ==
    /\ impl = "CountingLockFetch"
    /\ \/ \* closing = true
          /\ pc[t] = "idle"
          /\ ~obj.closing
          /\ obj' = [obj EXCEPT !.closing = TRUE]
          /\ Goto(t, "close_notify")
          /\ UNCHANGED <<impl, loc, iter, env>>
       \/ \* cv.notify_all()
          /\ pc[t] = "close_notify"
          /\ obj' = [obj EXCEPT !.waiting = {}]
          /\ pc' = [u \in Threads |->
                      IF u = t THEN "idle" ELSE IF u \in obj.waiting THEN "woken" ELSE pc[u]]
          /\ UNCHANGED <<impl, loc, iter, env>>

CLCloseNext == CLNext \/ \E t \in Threads : FetchClose(t)

\* The threads of the test and a call of close(), under the fair scheduler.
SpecCLClose ==
    /\ CLInit
    /\ [][CLCloseNext]_vars
    /\ \A t \in Threads :
          WF_vars(/\ pc[t] \notin {"idle", "waiting"}
                  /\ \/ RunCountingLock(t)
                     \/ CompSwapAcquire(t)
                     \/ CompSwapRelease(t)
                     \/ FetchAcquire(t)
                     \/ FetchRelease(t)
                     \/ SemaphoreAcquire(t)
                     \/ SemaphoreRelease(t)
                     \/ FetchClose(t))

\* An acquire() that starts when the lock is closed returns false and leaves
\* the counter alone.
FetchClosedRefuses ==
    \A t \in Threads :
        pc[t] = "acquire" /\ obj.closing /\ pc'[t] # pc[t]
            => pc'[t] = "idle" /\ obj'.counter = obj.counter

\* close() has returned.
FetchClosed == obj.closing /\ \A t \in Threads : pc[t] # "close_notify"

\* C23: CountingLockFetch.close() wakes every thread that waits in
\* acquire(true), each of them returns false, every acquire() called after
\* close() returns false without claiming a permit, and no waiter stays
\* blocked after close() has returned.
C23_CloseWakesAll ==
    /\ [][(impl = "CountingLockFetch") => FetchClosedRefuses]_vars
    /\ <>[](FetchClosed => \A t \in Threads : pc[t] # "waiting")

\* The parts of C23 that hold: a thread that close() found in cv.wait is
\* woken, and calls after close() are refused.
C23_Refuses == [][(impl = "CountingLockFetch") => FetchClosedRefuses]_vars

\* =====================================================================
\* Construction with a checked argument: the constructors of the three
\* CountingLock classes (CountingLock.hpp) and of QueueRing (QueueRing.hpp),
\* followed by the calls of CountingLockTest.cpp and of the queue tests on
\* the object that was built.  Before the constructor has run obj holds
\* its argument only, and every thread is at "new"; a constructor that
\* throws leaves every thread at "thrown", since there is no object to use.
\* =====================================================================
NewInit ==
    /\ impl \in CLImpls \cup {"QueueRing"}
    /\ \E arg \in 0..(IF impl = "QueueRing" THEN MaxCapacity ELSE MaxPermits) : obj = [arg |-> arg]
    /\ pc = [t \in Threads |-> "new"]
    /\ loc = [t \in Threads |-> IF impl = "QueueRing" THEN QIdle ELSE [curr |-> 0, block |-> TRUE]]
    /\ iter = [t \in Threads |-> 0]
    /\ env = IF impl = "QueueRing" THEN QHistory ELSE 0

\* CountingLockCompSwap(max, ..), CountingLockFetch(max, ..),
\* CountingLockSemaphore(max) and QueueRing(size): only the first and the
\* third test their argument.
New ==
    /\ \A t \in Threads : pc[t] = "new"
    /\ IF impl \in {"CountingLockCompSwap", "CountingLockSemaphore"} /\ obj.arg < 1
          THEN \* throw std::invalid_argument("Max must be at least 1.")
               /\ pc' = [t \in Threads |-> "thrown"]
               /\ UNCHANGED obj
          ELSE /\ obj' = IF impl = "QueueRing" THEN QueueRing_new(obj.arg)
                         ELSE [counter |-> IF impl = "CountingLockSemaphore" THEN obj.arg ELSE 0,
                               maxCounter |-> obj.arg, mutex |-> 0, waiting |-> {},
                               closing |-> FALSE]
               /\ pc' = [t \in Threads |-> "idle"]
    /\ UNCHANGED <<impl, loc, iter, env>>

NewNext ==
    \/ New
    \/ CLNext
    \/ \E t \in Threads :
          \/ impl = "QueueRing" /\ QCall(t)
          \/ QueueRingPush(t)
          \/ QueueRingPop(t)

SpecNew == NewInit /\ [][NewNext]_vars

\* The constructor has returned an object.
Constructed == \A t \in Threads : pc[t] \notin {"new", "thrown"}

\* C24: constructing a CountingLockCompSwap, a CountingLockFetch or a
\* CountingLockSemaphore with max < 1 fails at construction: no constructed
\* lock has a permit ceiling below 1.
C24_NoLockBelowOne ==
    impl \in CLImpls /\ Constructed => obj.maxCounter >= 1

\* The two classes whose constructor tests max.
C24_CompSwapSemaphore ==
    impl \in {"CountingLockCompSwap", "CountingLockSemaphore"} /\ Constructed
        => obj.maxCounter >= 1

\* C25: a QueueRing of capacity 0 is rejected at construction, so no push
\* and no pop ever runs on a ring of capacity 0.
C25_NoRingOfCapacityZero ==
    impl = "QueueRing" =>
        /\ Constructed => obj.size >= 1
        /\ \A t \in Threads : pc[t] \notin {"new", "thrown", "idle", "done"} => obj.size >= 1

\* =====================================================================
\* QueueRing at its capacity
\* =====================================================================
\* The number of pops of history h that returned true, over the values up to v.
RECURSIVE QPopCount(_, _)
QPopCount(h, v) == IF v < 0 THEN 0 ELSE h.popped[v] + QPopCount(h, v - 1)

\* A step of push that finds count == data.size() throws "Queue is full"
\* (recorded by taking the value out of env.pushed) and changes no field of
\* the ring; a step of push that finds a free slot does not throw.
QueueRingThrowsWhenFull ==
    \A t \in Threads :
        pc[t] = "push" /\ pc'[t] # "push" =>
            IF obj.count = obj.size
               THEN /\ obj' = obj
                    /\ loc[t].data \in env.pushed /\ loc[t].data \notin env'.pushed
                    /\ pc'[t] \in {"idle", "done"}
               ELSE pc'[t] = "push_claim" /\ env' = env

\* C26: on a QueueRing of capacity C a push that finds C elements stored
\* raises the capacity error and leaves count, both offsets and the slots
\* unchanged; the occupancy never exceeds C, so of C + 1 pushes without a
\* pop the last one raises the error; and when as many pops as pushes have
\* succeeded, empty() (count == 0) is true.
C26_RingCapacity ==
    /\ [](impl = "QueueRing" =>
            /\ obj.count <= obj.size
            /\ QQuiet => obj.count = Cardinality(env.pushed) - QPopCount(env, QMaxVal)
            /\ QQuiet /\ Cardinality(env.pushed) = QPopCount(env, QMaxVal) => obj.count = 0)
    /\ [][(impl = "QueueRing") => QueueRingThrowsWhenFull]_vars

\* A push has thrown on a full ring, and later as many pops as pushes have
\* succeeded.
C26_Witness ==
    /\ impl = "QueueRing"
    /\ QQuiet
    /\ iter[Producer] = MaxIter
    /\ (Producer - 1) * MaxCalls + MaxIter \notin env.pushed
    /\ QPopCount(env, QMaxVal) = Cardinality(env.pushed)
    /\ QPopCount(env, QMaxVal) >= obj.size

\* =====================================================================
\* The seven queue classes with one call at a time: a thread starts a call
\* only when no other call is running and no store is waiting in a buffer.
\* =====================================================================
SpecQSeq ==
    /\ QLInit \/ QFInit \/ Q2Init
    /\ [][/\ \/ impl \in QLImpls /\ QLNext
             \/ impl \in {"QueueAtomic", "QueueRing"} /\ QFNext
             \/ impl \in TwoPartyImpls /\ Q2Next
          /\ (\E t \in Threads : pc[t] = "idle" /\ pc'[t] # "idle") => QQuiet]_vars

\* The fields of a queue that only serve to synchronise its callers.
QSyncFields ==
    {"reduceCpuUsage", "aquired", "mtx", "read", "write", "writersTurn", "sb", "buffered"}

\* The state of queue o: its other fields, and the stores to them that wait
\* in a buffer.
Q_state(o) ==
    [fields  |-> [f \in DOMAIN o \ QSyncFields |-> o[f]],
     pending |-> IF "sb" \in DOMAIN o
                    THEN [u \in Threads |->
                            SelectSeq(o.sb[u], LAMBDA e : e[1][1] \notin QSyncFields)]
                    ELSE <<>>]

\* The elements stored in queue o, oldest first.
Q_contents(o) ==
    CASE impl \in QLImpls -> QL_contents(o)
      [] impl = "QueueAtomic" -> QueueAtomic_contents(o)
      [] impl = "QueueRing" -> QueueRing_contents(o)
      [] impl \in TwoPartyImpls -> Q2_contents(o)

\* The positions that a pop reaches only after it has found an element.
QPopTaking ==
    {"front", "advance", "fix_tail", "delete", "read", "unlink", "retire", "recount",
     "help", "cas_head", "pop_data", "pop_delete",
     "pop_claim", "pop_offset", "pop_advance", "pop_read"}

\* Thread t is in a pop that has taken nothing, and the queue is empty.
QPopFindsEmpty(t) ==
    /\ loc[t].op = "pop"
    /\ pc[t] \notin QPopTaking
    /\ loc[t].seen = QPopped(env)
    /\ Q_contents(obj) = <<>>

\* Every step of a pop on an empty queue stays on the way to 'return false',
\* records no popped value, does not write the output argument, and leaves
\* the state of the queue as it is; only QueueTwoPartyAtomic lowers count by
\* its fetch_sub and raises it again by its fetch_add before it returns.
QPopOnEmpty ==
    \A t \in Threads :
        QPopFindsEmpty(t) /\ pc'[t] # pc[t] =>
            /\ pc'[t] \notin QPopTaking \cup {"crashed"}
            /\ env' = env
            /\ loc'[t].data = 0
            /\ Q_state(obj') =
                  Q_state(IF impl = "QueueTwoPartyAtomic" /\ pc[t] = "pop"
                             THEN [obj EXCEPT !.count = @ - 1]
                          ELSE IF impl = "QueueTwoPartyAtomic" /\ pc[t] = "pop_restore"
                             THEN [obj EXCEPT !.count = @ + 1]
                          ELSE obj)
            /\ pc[t] = "pop_restore" => pc'[t] \in {"idle", "done"} /\ obj'.count = 1

Q2_live(o) == LET l == Heap_list(o, o.head, QMaxNodes) IN {l[i] : i \in 1..Len(l)}
Q2_retired(o) == LET l == Heap_list(o, o.recycleHead, QMaxNodes) IN {l[i] : i \in 1..Len(l)}

\* Between two calls no node is on both lists.
Q2ListsDisjoint == QQuiet => Q2_live(obj) \cap Q2_retired(obj) = {}

\* C28: in QueueTwoPartyAtomic and QueueTwoPartyNoCritical, after any
\* sequence of pushes by one thread and pops by another, no node is
\* reachable both from head and from recycleHead by following next.
C28_NoNodeOnBothLists ==
    impl \in {"QueueTwoPartyAtomic", "QueueTwoPartyNoCritical"} => Q2ListsDisjoint

\* QueueTwoPartyNoCritical alone, in every state.
C28_NoCritical ==
    impl = "QueueTwoPartyNoCritical" => Q2_live(obj) \cap Q2_retired(obj) = {}

\* The number of stored elements: the values whose push was called and that
\* no pop has taken yet.
Q2_depth == Cardinality(env.pushed) - QPopCount(env, QMaxVal)

\* The number of nodes allocated so far, the two dummies of the constructor
\* included; no node is deleted before the destructor, so every allocation
\* takes a fresh address.
Q2_allocated(o) == o.brk

\* a step of push that allocates finds no retired node to reuse: the free
\* list of QueueTwoPartyNoCritical holds its dummy only, and recycleCount of
\* QueueTwoPartyAtomic stands at 'none' (0 after the fetch_sub of this push).
Q2AllocatesOnlyWhenNoneRetired ==
    \A t \in Threads :
        /\ pc'[t] = "new" /\ pc[t] # "new" => obj.next[obj.recycleHead] = 0
        /\ pc'[t] = "restore" /\ pc[t] # "restore" => obj.recycleCount = 1
        /\ Q2_allocated(obj') > Q2_allocated(obj) =>
              /\ pc[t] \in {"new", "restore"} => Q2_allocated(obj') = Q2_allocated(obj) + 1
              /\ \E u \in Threads : pc[u] \in {"new", "restore"} /\ loc[u].op = "push"

\* The nodes that the constructor allocates: the dummy of the live list and
\* the dummy of the free list.
Q2Dummies == 2

\* C29: in QueueTwoPartyAtomic and QueueTwoPartyNoCritical, over any number
\* of pushes and pops during which the number of stored elements never
\* exceeds D, at most D + Q2Dummies nodes are ever allocated; a push
\* allocates only when no retired node is available.
C29_AllocationBounded ==
    /\ \A D \in 1..(MaxCalls - 1) :
          [](Q2_depth <= D) =>
             [](impl \in {"QueueTwoPartyAtomic", "QueueTwoPartyNoCritical"}
                   => Q2_allocated(obj) <= D + Q2Dummies)
    /\ [][(impl \in {"QueueTwoPartyAtomic", "QueueTwoPartyNoCritical"})
             => Q2AllocatesOnlyWhenNoneRetired]_vars

\* The producer has made all its pushes, and only the first one allocated.
C29_Witness ==
    /\ impl \in {"QueueTwoPartyAtomic", "QueueTwoPartyNoCritical"}
    /\ iter[Producer] = MaxCalls
    /\ Cardinality(env.pushed) = MaxCalls
    /\ Q2_allocated(obj) = 1 + Q2Dummies

\* With the calls of the producer and of the consumer overlapping, a pop in
\* progress holds one more node that is not yet retired; checked where a
\* retired node is visible to the producer at once (QueueTwoPartyAtomic, and
\* QueueTwoPartyNoCritical without store buffering).
C29_Overlapping ==
    \A D \in 1..(MaxCalls - 1) :
        [](Q2_depth <= D) =>
           [](impl = "QueueTwoPartyAtomic" \/ (impl = "QueueTwoPartyNoCritical" /\ ~obj.buffered)
                 => Q2_allocated(obj) <= D + Q2Dummies + 1)

\* =====================================================================
\* Destruction of the containers that own nodes: the queue classes with a
\* linked list and the callback queues, used by one call at a time and
\* then destroyed.  After the destructor obj is the heap it leaves, with
\* deleted, the nodes it handed to delete in that order; the threads are at
\* "destroyed".  A delete of a node that was deleted before is undefined:
\* the destructor stops there, and the process either ends ("crashed") or
\* goes on.
\* =====================================================================
Destroy ==
    /\ "deleted" \notin DOMAIN obj
    /\ \A t \in Threads : pc[t] \in {"idle", "done"}
    /\ \A t \in Threads : obj.sb[t] = <<>>
    /\ LET \* while(n != nullptr){ next = n->next; delete n; n = next; } on
           \* r = the heap o, the deletes so far d, and whether one was
           \* undefined
           RECURSIVE walk(_, _)
           walk(r, n) ==
               IF r.undefined \/ n = 0 THEN r
               ELSE IF n \notin r.o.live
                  THEN [r EXCEPT !.d = Append(@, n), !.undefined = TRUE]
                  ELSE walk([r EXCEPT !.o = Heap_delete(@, n), !.d = Append(@, n)],
                            r.o.next[n])
           \* CallbackQueueThreadSafe::cancelAll: every entry of the queue is
           \* moved to the end of the free list (k bounds the loop)
           RECURSIVE cancelAll(_, _)
           cancelAll(o, k) ==
               IF o.head = 0 \/ k = 0 THEN [o EXCEPT !.tail = 0]
               ELSE LET oldHead == o.head
                        cut == [o EXCEPT !.head = o.next[oldHead], !.next[oldHead] = 0]
                    IN  cancelAll([(IF cut.recycleTail # 0
                                       THEN [cut EXCEPT !.next[cut.recycleTail] = oldHead]
                                       ELSE [cut EXCEPT !.recycleHead = oldHead])
                                     EXCEPT !.recycleTail = oldHead], k - 1)
           start == [o |-> obj, d |-> <<>>, undefined |-> FALSE]
           end == CASE impl \in {"QueueAtomic", "QueueLockCustom", "QueueTwoParty",
                                 "CallbackQueueNaive", "CallbackQueueLock"} ->
                          walk(start, obj.head)
                    [] impl \in {"QueueTwoPartyAtomic", "QueueTwoPartyNoCritical",
                                 "CallbackQueueTwoParty"} ->
                          walk(walk(start, obj.head), obj.recycleHead)
                    [] impl = "CallbackQueueRecycle" ->
                          walk(walk(start, obj.head), obj.poolHead)
                    [] impl = "CallbackQueueThreadSafe" ->
                          LET c == cancelAll(obj, QMaxNodes)
                          IN  walk([start EXCEPT !.o = c], c.recycleHead)
       IN  /\ obj' = end.o @@ [deleted |-> end.d]
           /\ \E after \in (IF end.undefined THEN {"crashed", "destroyed"} ELSE {"destroyed"}) :
                 pc' = [t \in Threads |-> after]
    /\ UNCHANGED <<impl, loc, iter, env>>

SpecDestroy ==
    /\ \/ QLInit /\ impl = "QueueLockCustom"
       \/ QFInit /\ impl = "QueueAtomic"
       \/ Q2Init
       \/ CQInit
    /\ [][/\ \/ impl = "QueueLockCustom" /\ QLNext
             \/ impl = "QueueAtomic" /\ QFNext
             \/ impl \in TwoPartyImpls /\ Q2Next
             \/ impl \in CallbackQueueImpls /\ CQNext
             \/ Destroy
          /\ (\E t \in Threads : pc[t] = "idle" /\ pc'[t] # "idle") => QQuiet]_vars

\* The destructor has run: every node that was allocated was deleted, and
\* none was handed to delete twice.
DestroyedCleanly ==
    "deleted" \in DOMAIN obj =>
        /\ obj.live = {}
        /\ \A i, j \in 1..Len(obj.deleted) : i # j => obj.deleted[i] # obj.deleted[j]

\* C30: destroying a queue or a callback queue after any sequence of its
\* operations frees every node it still owns exactly once: every node
\* reachable from head or from the free list is deleted, none twice, none
\* left allocated.
C30_DestructorFreesOnce == DestroyedCleanly

\* The classes for which this holds.
C30_CleanClasses ==
    impl \in {"QueueAtomic", "QueueLockCustom", "QueueTwoParty", "QueueTwoPartyNoCritical",
              "CallbackQueueNaive", "CallbackQueueLock", "CallbackQueueThreadSafe",
              "CallbackQueueTwoParty"} => DestroyedCleanly

\* CallbackQueueRecycle alone.
C30_Recycle == impl = "CallbackQueueRecycle" => DestroyedCleanly

\* =====================================================================
\* Progress of one caller alone
\* =====================================================================
(***************************************************************************)
(* The queues when only the producer is certain to run: the producer takes *)
(* its next step whenever it is inside a call, and stores leave the store  *)
(* buffers; every other thread may stop anywhere, also in the middle of a  *)
(* call.                                                                   *)
(***************************************************************************)
SpecQAlone ==
    /\ QLInit \/ QFInit \/ Q2Init
    /\ [][\/ impl \in QLImpls /\ QLNext
          \/ impl \in {"QueueAtomic", "QueueRing"} /\ QFNext
          \/ impl \in TwoPartyImpls /\ Q2Next]_vars
    /\ WF_vars(\/ impl \in QLImpls /\ LockLock(Producer)
               \/ QueueLockPush(Producer)
               \/ QueueLockCustomPush(Producer)
               \/ QueueAtomicPush(Producer)
               \/ QueueRingPush(Producer)
               \/ QueueTwoPartyNoCriticalPush(Producer)
               \/ QueueTwoPartyAtomicPush(Producer)
               \/ impl = "QueueTwoParty" /\ RWAccess(Producer)
               \/ QueueTwoPartyPush(Producer))
    /\ \A t \in Threads : WF_vars("sb" \in DOMAIN obj /\ MemFlush(t))

\* The producer is inside push.
QPushing == loc[Producer].op = "push" /\ pc[Producer] \notin {"idle", "done", "crashed"}

\* C31: on every queue class a push returns through the steps of its own
\* thread, whatever the other threads do and wherever they stop (and a pop
\* that finds the queue empty likewise).
C31_PushDoesNotWait == QPushing ~> ~QPushing

\* The same for the classes that take no lock and no access in push.
C31_LockFreePush ==
    (impl \notin QLImpls \cup {"QueueTwoParty"} /\ QPushing) ~> ~QPushing

\* The same for QueueTwoParty alone, whose push takes the write access.
C31_TwoPartyPush == (impl = "QueueTwoParty" /\ QPushing) ~> ~QPushing

\* =====================================================================
\* RecycleObjectStoreQueue / Vector / Bitmap, driven as in
\* RecycleObjectStoreTest.cpp by one thread that acquires and releases.
\* An object is named by the order of its allocation (1, 2, ...); in the
\* vector and bitmap stores objects[index] is object index + 1.
\* obj = [objects, available] or [objects, availability]
\* env = [inUse, last], last describing the latest call
\* =====================================================================
ROSImpls == {"RecycleObjectStoreQueue", "RecycleObjectStoreVector", "RecycleObjectStoreBitmap"}

\* Largest number of objects a store allocates, and largest number of
\* released objects the client leaves in the store at once.
MaxObjects == 33
MaxReleased == 2

\* Width of BitMapEntry (uint64_t) and of int, the type of the literal 1.
bitMapEntrySize == 64
IntBits == 32

\* The values (as sets of bit positions of a BitMapEntry) that 1 << b can
\* have once converted to BitMapEntry: the int is sign-extended, so bit 31
\* brings all higher bits with it; a shift by 32 or more is undefined, and
\* yields either the shift by b mod 32 or zero.
ShiftOne_mut(b) == {{b}}
ShiftOne(b) ==
    LET bits(c) == IF c = IntBits - 1 THEN (IntBits - 1)..(bitMapEntrySize - 1) ELSE {c}
    IN  IF b < IntBits THEN {bits(b)} ELSE {bits(b % IntBits), {}}

ROSInit ==
    /\ impl \in ROSImpls
    /\ obj = IF impl = "RecycleObjectStoreQueue"
                THEN [objects |-> <<>>, available |-> <<>>]
                ELSE [objects |-> <<>>, availability |-> <<>>]
    /\ pc = [t \in Threads |-> "idle"]
    /\ loc = NoLocals
    /\ iter = [t \in Threads |-> 0]
    /\ env = [inUse |-> {}, last |-> [op |-> "none", inUse |-> FALSE, released |-> FALSE, created |-> FALSE]]

\* The objects the client has released and not got back.
ROS_released == {o \in 1..Len(obj.objects) : o \notin env.inUse}

\* The client records the object that acquire has returned: whether it was
\* in use, whether a released object existed, and whether acquire created
\* the object.
ROSAcquired(o) ==
    env' = [inUse |-> env.inUse \cup {o},
            last |-> [op |-> "acquire", inUse |-> o \in env.inUse,
                      released |-> ROS_released # {},
                      created |-> Len(obj'.objects) > Len(obj.objects)]]

\* acquire(): the first available object, or else a new one
RecycleObjectStoreAcquire ==
    /\ CASE impl = "RecycleObjectStoreQueue" ->
               IF obj.available = <<>>
                  THEN /\ obj' = [obj EXCEPT !.objects = Append(@, Len(@) + 1)]
                       /\ ROSAcquired(Len(obj.objects) + 1)
                  ELSE /\ obj' = [obj EXCEPT !.available = Tail(@)]
                       /\ ROSAcquired(Head(obj.available))
         [] impl = "RecycleObjectStoreVector" ->
               LET avail == {i \in 1..Len(obj.availability) : obj.availability[i]}
                   first == CHOOSE i \in avail : \A j \in avail : i <= j
               IN  IF avail # {}
                      THEN /\ obj' = [obj EXCEPT !.availability[first] = FALSE]
                           /\ ROSAcquired(obj.objects[first])
                      ELSE /\ obj' = [objects |-> Append(obj.objects, Len(obj.objects) + 1),
                                      availability |-> Append(obj.availability, FALSE)]
                           /\ ROSAcquired(Len(obj.objects) + 1)
         [] impl = "RecycleObjectStoreBitmap" ->
               \* the inner loop ends at some b < IntBits whenever the entry
               \* is not 0, since 1 << 31 covers every higher bit
               LET avail == {i \in 1..Len(obj.availability) : obj.availability[i] # {}}
                   i == CHOOSE k \in avail : \A j \in avail : k <= j
                   hits == {c \in 0..(IntBits - 1) :
                               \E mask \in ShiftOne(c) : obj.availability[i] \cap mask # {}}
                   b == CHOOSE c \in hits : \A d \in hits : c <= d
                   index == (i - 1) * bitMapEntrySize + b
               IN  IF avail # {}
                      THEN /\ obj' = [obj EXCEPT !.availability[i] = @ \ {b}]
                           /\ ROSAcquired(obj.objects[index + 1])
                      ELSE /\ obj' = [objects |-> Append(obj.objects, Len(obj.objects) + 1),
                                      availability |->
                                          IF (Len(obj.objects) + 1) % bitMapEntrySize = 1
                                             THEN Append(obj.availability, {})
                                             ELSE obj.availability]
                           /\ ROSAcquired(Len(obj.objects) + 1)
    /\ Len(obj'.objects) <= MaxObjects
    /\ UNCHANGED <<impl, pc, loc, iter>>

\* release(obj) / release(index) of an object that the client holds
RecycleObjectStoreRelease ==
    /\ Cardinality(ROS_released) < MaxReleased
    /\ \E o \in env.inUse :
          /\ CASE impl = "RecycleObjectStoreQueue" ->
                     obj' = [obj EXCEPT !.available = Append(@, o)]
               [] impl = "RecycleObjectStoreVector" ->
                     obj' = [obj EXCEPT !.availability[o] = TRUE]
               [] impl = "RecycleObjectStoreBitmap" ->
                     \E mask \in ShiftOne((o - 1) % bitMapEntrySize) :
                        obj' = [obj EXCEPT
                                   !.availability[((o - 1) \div bitMapEntrySize) + 1] = @ \cup mask]
          /\ env' = [inUse |-> env.inUse \ {o},
                     last |-> [op |-> "release", inUse |-> TRUE, released |-> FALSE,
                               created |-> FALSE]]
    /\ UNCHANGED <<impl, pc, loc, iter>>

ROSNext == RecycleObjectStoreAcquire \/ RecycleObjectStoreRelease

SpecROS == ROSInit /\ [][ROSNext]_vars

\* The last call was an acquire: its object was not in use, and it created
\* an object exactly if no released object was left.
ROSRecycles ==
    env.last.op = "acquire" =>
        /\ ~env.last.inUse
        /\ env.last.created = ~env.last.released

\* C32: in each of the three stores, acquire never returns an object that is
\* in use, and creates a new object only when no released object is left.
C32_AcquireRecycles == impl \in ROSImpls => ROSRecycles

\* The same for the queue and vector stores alone.
C32_QueueAndVector ==
    impl \in {"RecycleObjectStoreQueue", "RecycleObjectStoreVector"} => ROSRecycles

\* The same for the bitmap store while it has fewer than 32 objects.
C32_SmallBitmap ==
    impl = "RecycleObjectStoreBitmap" /\ Len(obj.objects) < IntBits => ROSRecycles

\* The same for the bitmap store with at most 32 objects, where no shift is
\* undefined.
C32_BitmapOf32 ==
    impl = "RecycleObjectStoreBitmap" /\ Len(obj.objects) <= IntBits => ROSRecycles

\* =====================================================================
\* Lock::setReduceCpuUsage (ThreadSynchronization.hpp), called by threads
\* that do not hold the lock
\* obj = [reduceCpuUsage, aquired, mtx]; loc[t] = the argument of the call;
\* env = whether a call has started while another call was running
\* =====================================================================
LockModeInit ==
    /\ impl = "Lock"
    /\ \E r \in BOOLEAN : obj = Lock_new(r)
    /\ pc = [t \in Threads |-> "idle"]
    /\ loc = [t \in Threads |-> [reduceCpuUsage |-> FALSE]]
    /\ iter = [t \in Threads |-> 0]
    /\ env = [overlapped |-> FALSE]

\* Lock::setReduceCpuUsage(reduceCpuUsage); lock() is LockLock
SetReduceCpuUsage(t) ==
    \/ \* the call: if(reduceCpuUsage == this->reduceCpuUsage) return
       /\ pc[t] = "idle"
       /\ env' = [overlapped |-> env.overlapped \/ \E u \in Threads : pc[u] \notin {"idle", "done"}]
       /\ \E m \in BOOLEAN :
             /\ loc' = [loc EXCEPT ![t].reduceCpuUsage = m]
             /\ IF m = obj.reduceCpuUsage
                   THEN NextRound(t, "idle")
                   ELSE Goto(t, "lock") /\ UNCHANGED iter
       /\ UNCHANGED <<impl, obj>>
    \/ \* this->reduceCpuUsage = reduceCpuUsage
       /\ pc[t] = "locked"
       /\ obj' = [obj EXCEPT !.reduceCpuUsage = loc[t].reduceCpuUsage]
       /\ Goto(t, "unlock")
       /\ UNCHANGED <<impl, loc, iter, env>>
    \/ \* unlock(); mtx.unlock() of a mutex that is not locked is undefined:
       \* it has no effect or ends the process
       /\ pc[t] = "unlock"
       /\ obj' = Lock_unlock(obj)
       /\ \/ NextRound(t, "idle")
          \/ /\ obj.reduceCpuUsage /\ ~obj.mtx
             /\ pc' = [u \in Threads |-> "crashed"]
             /\ UNCHANGED iter
       /\ UNCHANGED <<impl, loc, env>>

SpecLockMode ==
    LockModeInit /\ [][\E t \in Threads : LockLock(t) \/ SetReduceCpuUsage(t)]_vars

\* No call of setReduceCpuUsage is running, and none has run together with
\* another.
LockModeQuiet == ~env.overlapped /\ \A t \in Threads : pc[t] \in {"idle", "done"}

\* C33: when setReduceCpuUsage has returned, also after several switches in
\* both directions, neither the spin flag nor the mutex is held.
C33_SwitchReleasesAll == LockModeQuiet => ~obj.aquired /\ ~obj.mtx

\* A call with the current mode leaves the lock as it was.
C33_SameModeKeeps ==
    [][\A t \in Threads :
          pc[t] = "idle" /\ pc'[t] # "lock" /\ iter'[t] # iter[t] => obj' = obj]_vars

\* =====================================================================
\* ReadOrWriteAccess::setMultithreaded (ThreadSynchronization.hpp), called
\* by one thread at a time while no thread holds or requests an access
\* obj = [multithreaded, simultaneousReads, read, write, writersTurn, mtx,
\*        sb, buffered]; loc[t] = the argument of the call; iter[t] = the
\* number of mode switches thread t has made
\* =====================================================================
RWModeInit ==
    /\ impl = "ReadOrWriteAccess"
    /\ \E mt, s, b \in BOOLEAN :
          obj = RW_new(b) @@ [multithreaded |-> mt, simultaneousReads |-> s,
                              mtx |-> [owner |-> 0, shared |-> {}]]
    /\ pc = [t \in Threads |-> "idle"]
    /\ loc = [t \in Threads |-> [multithreaded |-> FALSE]]
    /\ iter = [t \in Threads |-> 0]
    /\ env = <<>>

\* releaseWrite() that always clears the write flag.
RW_releaseWrite_mut(o, t) == Mem_store(o, t, <<"write">>, FALSE)

\* The fields after releaseWrite() of thread t: mtx.unlock(), or write = false
RW_releaseWrite(o, t) ==
    IF o.multithreaded
       THEN [o EXCEPT !.mtx.owner = 0]
       ELSE Mem_store(o, t, <<"write">>, FALSE)

\* ReadOrWriteAccess::setMultithreaded(multithreaded), with accessWrite()
\* and releaseWrite() as the calling thread runs them
SetMultithreaded(t) ==
    \/ \* the call, after the calls of the other threads and their stores:
       \* if(multithreaded == this->multithreaded) return
       /\ pc[t] = "idle"
       /\ \A u \in Threads \ {t} : pc[u] \in {"idle", "done"} /\ obj.sb[u] = <<>>
       /\ \E m \in BOOLEAN :
             /\ loc' = [loc EXCEPT ![t].multithreaded = m]
             /\ IF m = obj.multithreaded
                   THEN UNCHANGED pc
                   ELSE Goto(t, "access")
       /\ UNCHANGED <<impl, obj, iter, env>>
    \/ \* accessWrite(): mtx.lock(), or write = true
       /\ pc[t] = "access"
       /\ IF obj.multithreaded
             THEN /\ Mem_drained(obj, t)
                  /\ SharedMutex_may_lock(obj.mtx)
                  /\ obj' = [obj EXCEPT !.mtx.owner = t]
                  /\ Goto(t, "new")
             ELSE /\ obj' = Mem_store(obj, t, <<"write">>, TRUE)
                  /\ Goto(t, "turn")
       /\ UNCHANGED <<impl, loc, iter, env>>
    \/ \* accessWrite(): writersTurn = false
       /\ pc[t] = "turn"
       /\ obj' = Mem_store(obj, t, <<"writersTurn">>, FALSE)
       /\ Goto(t, "wait")
       /\ UNCHANGED <<impl, loc, iter, env>>
    \/ \* accessWrite(): while(read && !writersTurn)
       /\ pc[t] = "wait"
       /\ Goto(t, IF Mem_load(obj, t, <<"read">>) /\ ~Mem_load(obj, t, <<"writersTurn">>)
                     THEN "wait" ELSE "new")
       /\ UNCHANGED <<impl, obj, loc, iter, env>>
    \/ \* if(multithreaded) mtx.lock(); else write = true
       /\ pc[t] = "new"
       /\ IF loc[t].multithreaded
             THEN /\ Mem_drained(obj, t)
                  /\ SharedMutex_may_lock(obj.mtx)
                  /\ obj' = [obj EXCEPT !.mtx.owner = t]
             ELSE obj' = Mem_store(obj, t, <<"write">>, TRUE)
       /\ Goto(t, "mode")
       /\ UNCHANGED <<impl, loc, iter, env>>
    \/ \* this->multithreaded = multithreaded
       /\ pc[t] = "mode"
       /\ obj' = [obj EXCEPT !.multithreaded = loc[t].multithreaded]
       /\ Goto(t, "old")
       /\ UNCHANGED <<impl, loc, iter, env>>
    \/ \* if(multithreaded) write = false; else mtx.unlock()
       /\ pc[t] = "old"
       /\ IF loc[t].multithreaded
             THEN obj' = Mem_store(obj, t, <<"write">>, FALSE)
             ELSE /\ Mem_drained(obj, t)
                  /\ obj' = [obj EXCEPT !.mtx.owner = 0]
       /\ Goto(t, "release")
       /\ UNCHANGED <<impl, loc, iter, env>>
    \/ \* releaseWrite()
       /\ pc[t] = "release"
       /\ obj.multithreaded => Mem_drained(obj, t)
       /\ obj' = RW_releaseWrite(obj, t)
       /\ NextRound(t, "idle")
       /\ UNCHANGED <<impl, loc, env>>

SpecRWMode ==
    RWModeInit /\ [][\E t \in Threads : SetMultithreaded(t) \/ MemFlush(t)]_vars

\* Thread t holds the Peterson write flag, as t itself reads it; t holds mtx.
RWWriteFlag(t) == Mem_load(obj, t, <<"write">>)
RWOwnsMutex(t) == obj.mtx.owner = t

\* A step of setMultithreaded that changes the mode is taken with both
\* mechanisms held; the step that releases the old mechanism leaves the new
\* one held; the step that returns from a switch leaves none held.
RWModeSwitch ==
    \A t \in Threads :
        /\ pc[t] = "mode" /\ obj'.multithreaded # obj.multithreaded =>
              RWWriteFlag(t) /\ RWOwnsMutex(t)
        /\ pc[t] = "old" /\ pc'[t] = "release" =>
              IF loc[t].multithreaded
                 THEN RWOwnsMutex(t)' /\ ~RWWriteFlag(t)'
                 ELSE RWWriteFlag(t)' /\ obj'.mtx.owner = 0
        /\ pc[t] = "release" /\ pc'[t] # "release" =>
              ~RWWriteFlag(t)' /\ obj'.mtx.owner = 0

\* C34: setMultithreaded(m) with m different from the current mode, called
\* while no thread holds or requests an access, has exclusive access by the
\* old mechanism and holds the new one when it changes the mode, holds the
\* new one when it has released the old one, and when it has returned
\* neither the write flag nor the mutex is held, in both directions.
C34_SwitchIsExclusive ==
    /\ [][RWModeSwitch]_vars
    /\ [](/\ \A t \in Threads : pc[t] = "mode" => RWWriteFlag(t) /\ RWOwnsMutex(t)
          /\ (\A t \in Threads : pc[t] \in {"idle", "done"} /\ obj.sb[t] = <<>>)
                => ~obj.write /\ obj.mtx.owner = 0 /\ obj.mtx.shared = {})

\* One thread has switched the mode in both directions and has returned.
C34_Witness ==
    /\ \E t \in Threads : /\ iter[t] = MaxIter /\ pc[t] = "done"
                          /\ \A u \in Threads \ {t} : iter[u] = 0
    /\ \A t \in Threads : pc[t] \in {"idle", "done"} /\ obj.sb[t] = <<>>
    /\ obj.buffered
    /\ ~obj.multithreaded
    /\ ~obj.writersTurn

\* C35: in QueueAtomic head always points to an allocated node, never to
\* nullptr, also when a pop runs between the two steps of a push (tail
\* advanced, the old tail's next not yet linked).
C35_HeadIsAllocated == impl = "QueueAtomic" => obj.head # 0 /\ obj.head \in obj.live


\* ------------- one pushing thread and one draining thread at the same time
\* Thread 1 only calls push and thread 2 only calls execute, MaxCalls calls
\* each, in any interleaving.
SpecCQPushDrain ==
    /\ CQ2Init
    /\ [][\E t \in Threads :
             \/ CQCall(t) /\ loc'[t].op = (IF t = 1 THEN "push" ELSE "execute")
             \/ CallbackQueueNaivePush(t)
             \/ CallbackQueueNaiveExecute(t)
             \/ CallbackQueueRecyclePush(t)
             \/ CallbackQueueRecycleExecute(t)
             \/ CallbackQueueThreadSafePush(t)
             \/ CallbackQueueThreadSafeExecute(t)
             \/ CallbackQueueLockPush(t)
             \/ CallbackQueueLockExecute(t)
             \/ CallbackQueueTwoPartyPush(t)
             \/ CallbackQueueTwoPartyExecute(t)]_vars

\* While no call runs, every callback that was pushed and has not returned
\* true is in an entry reachable from head.
CQNoneLost ==
    CQQuiet => \A i \in 1..Len(env.pending) :
                  \E j \in 1..Len(CQ_contents(obj)) : CQ_contents(obj)[j] = env.pending[i]

\* C36: in CallbackQueueNaive and CallbackQueueRecycle with one thread
\* pushing while another drains, no callback is lost: a pushed callback stays
\* reachable from head until it has returned true, also when its push meets
\* the removal of the last entry.
C36_NoCallbackLost ==
    impl \in {"CallbackQueueNaive", "CallbackQueueRecycle"} => CQNoneLost

\* The same for CallbackQueueThreadSafe, which holds its mutex in both calls.
C36_ThreadSafe == impl = "CallbackQueueThreadSafe" => CQNoneLost

\* ------------------------------ recycling of entries in the callback queues
CQRecycling == {"CallbackQueueRecycle", "CallbackQueueThreadSafe", "CallbackQueueTwoParty"}

\* The callbacks queued (pushed and not yet returned true), the entries
\* allocated so far (no recycling class deletes one before its destructor),
\* and the entries the constructor allocates.
CQ_depth == Len(env.pending)
CQ_allocated(o) == o.brk
CQDummies == IF impl = "CallbackQueueTwoParty" THEN Q2Dummies ELSE 0

\* The entries of the live queue and of the free list.
CQ_live(o) ==
    LET l == Heap_list(o, o.head, QMaxNodes) IN {l[i] : i \in 1..Len(l)}
CQ_free(o) ==
    LET l == Heap_list(o, IF impl = "CallbackQueueRecycle" THEN o.poolHead ELSE o.recycleHead,
                       QMaxNodes)
    IN  {l[i] : i \in 1..Len(l)}

\* The allocated entries that are not in the live queue, less the one entry
\* that CallbackQueueTwoParty always keeps in its free list.
CQ_retired(o) ==
    Cardinality(o.live \ CQ_live(o)) - (IF impl = "CallbackQueueTwoParty" THEN 1 ELSE 0)

\* A step allocates an entry only when no retired entry is left.
CQAllocatesOnlyWhenNoneRetired ==
    CQ_allocated(obj') > CQ_allocated(obj) => CQ_retired(obj) = 0

\* C37: in CallbackQueueRecycle, CallbackQueueThreadSafe and
\* CallbackQueueTwoParty used by one caller, in every run in which at most D
\* callbacks are queued at once, at most D + CQDummies entries are ever
\* allocated: retired entries go to the free list and later pushes take them
\* from it (an entry is allocated only when none is retired), and between
\* calls no entry is in the live queue and in the free list.
C37_EntriesAreRecycled ==
    /\ \A D \in 1..(MaxCbCalls - 1) :
          [](CQ_depth <= D) =>
             [](impl \in CQRecycling => CQ_allocated(obj) <= D + CQDummies)
    /\ [][(impl \in CQRecycling) => CQAllocatesOnlyWhenNoneRetired]_vars
    /\ [](impl \in CQRecycling /\ CQQuiet => CQ_live(obj) \cap CQ_free(obj) = {})

\* The same for CallbackQueueThreadSafe and CallbackQueueTwoParty alone.
C37_ThreadSafeAndTwoParty ==
    /\ \A D \in 1..(MaxCbCalls - 1) :
          [](CQ_depth <= D) =>
             [](impl \in CQRecycling \ {"CallbackQueueRecycle"}
                   => CQ_allocated(obj) <= D + CQDummies)
    /\ [][(impl \in CQRecycling \ {"CallbackQueueRecycle"})
             => CQAllocatesOnlyWhenNoneRetired]_vars
    /\ [](impl \in CQRecycling \ {"CallbackQueueRecycle"} /\ CQQuiet
             => CQ_live(obj) \cap CQ_free(obj) = {})

\* =====================================================================
\* QueueTwoParty::cancelAll (QueueTwoParty.hpp), called by the consumer
\* between the pushes of the producer: no push is in progress and the
\* stores of the earlier pushes have reached memory when cancelAll is
\* called, and the producer calls push again only after it has returned.
\* =====================================================================
QCancelInit ==
    /\ impl = "QueueTwoParty"
    /\ \E b \in BOOLEAN : obj = QueueTwoParty_new(b)
    /\ QThreadsInit

\* the consumer calls cancelAll(), which starts with access.accessRead()
QCancelCall(t) ==
    /\ t = Consumer
    /\ pc[t] = "idle"
    /\ pc[Producer] \in {"idle", "done"}
    /\ obj.sb[Producer] = <<>>
    /\ loc' = [loc EXCEPT ![t] = [QIdle EXCEPT !.op = "cancelAll"]]
    /\ Goto(t, "access")
    /\ UNCHANGED <<impl, obj, iter, env>>

\* QueueTwoParty::cancelAll, after the first access.accessRead()
QueueTwoPartyCancelAll(t) ==
    /\ impl = "QueueTwoParty"
    /\ \/ \* while(this->head != nullptr)
          /\ pc[t] = "inside"
          /\ loc[t].op = "cancelAll"
          /\ Goto(t, IF Mem_load(obj, t, <<"head">>) = 0 THEN "clear_tail" ELSE "unlink")
          /\ UNCHANGED <<impl, obj, loc, iter, env>>
       \/ \* oldHead = this->head; this->head = oldHead->next
          /\ pc[t] = "unlink"
          /\ \E n \in Heap_read(obj, t, "next", Mem_load(obj, t, <<"head">>)) :
                obj' = Mem_store(obj, t, <<"head">>, n)
          /\ loc' = [loc EXCEPT ![t].oldHead = Mem_load(obj, t, <<"head">>)]
          /\ Goto(t, "delete_all")
          /\ UNCHANGED <<impl, iter, env>>
       \/ \* delete oldHead
          /\ pc[t] = "delete_all"
          /\ obj' = Heap_delete(obj, loc[t].oldHead)
          /\ Goto(t, "inside")
          /\ UNCHANGED <<impl, loc, iter, env>>
       \/ \* this->tail = nullptr, then access.accessRead() a second time
          /\ pc[t] = "clear_tail"
          /\ obj' = Mem_store(obj, t, <<"tail">>, 0)
          /\ loc' = [loc EXCEPT ![t].op = "cancelAll2"]
          /\ Goto(t, "access")
          /\ UNCHANGED <<impl, iter, env>>
       \/ \* the second accessRead() has returned: cancelAll returns
          /\ pc[t] = "inside"
          /\ loc[t].op = "cancelAll2"
          /\ QReturn(t)
          /\ UNCHANGED <<impl, obj, env>>

QCancelling == loc[Consumer].op \in {"cancelAll", "cancelAll2"}

QCancelNext ==
    \E t \in {Producer, Consumer} :
        \/ ~(t = Producer /\ QCancelling) /\ QCall(t)
        \/ QCancelCall(t)
        \/ MemFlush(t)
        \/ RWAccess(t)
        \/ QueueTwoPartyPush(t)
        \/ QueueTwoPartyPop(t)
        \/ QueueTwoPartyCancelAll(t)

\* Both threads run: a call that can take a step takes one, and every
\* buffered store reaches memory.  Nothing makes a thread call.
SpecQCancel ==
    /\ QCancelInit
    /\ [][QCancelNext]_vars
    /\ \A t \in {Producer, Consumer} :
          /\ WF_vars(RWAccess(t) \/ QueueTwoPartyPush(t) \/ QueueTwoPartyPop(t)
                        \/ QueueTwoPartyCancelAll(t))
          /\ WF_vars(MemFlush(t))

\* cancelAll returns in this step.
QCancelReturns ==
    /\ QCancelling
    /\ pc[Consumer] = "inside"
    /\ pc'[Consumer] \in {"idle", "done"}

\* When cancelAll returns, head and tail are nullptr and no node is left.
QCancelEmpties ==
    QCancelReturns =>
        /\ Mem_load(obj', Consumer, <<"head">>) = 0
        /\ Mem_load(obj', Consumer, <<"tail">>) = 0
        /\ obj'.live = {}

\* When cancelAll returns, the read flag of access is down.
QCancelReleases == QCancelReturns => ~Mem_load(obj', Consumer, <<"read">>)

QPopping == loc[Consumer].op = "pop" /\ pc[Consumer] \notin {"idle", "done", "crashed"}

\* C38: when QueueTwoParty::cancelAll returns, the queue is empty and the
\* read access that cancelAll took is released, and every push of the
\* producer and every pop of the consumer, those after cancelAll included,
\* returns.
C38_CancelAllLeavesUsable ==
    /\ [][QCancelEmpties]_vars
    /\ [][QCancelReleases]_vars
    /\ QPushing ~> ~QPushing
    /\ QPopping ~> ~QPopping

\* The parts of C38 one by one.
C38_Empties == [][QCancelEmpties]_vars
C38_EmptiesUnbuffered == [][~obj.buffered => QCancelEmpties]_vars
C38_ReadReleased == [][QCancelReleases]_vars
C38_PushReturns == QPushing ~> ~QPushing
C38_PopReturns == QPopping ~> ~QPopping
C38_CancelAllReturns == QCancelling ~> ~QCancelling

(***************************************************************************)
(* Non-blocking acquire calls with their history.  In this specification   *)
(* iter[t] = 1 records that, at some instant of the acquire(false) call    *)
(* that thread t is in, max permits were held.  The record is made in the  *)
(* state in which it becomes true, before any thread takes a step, and is  *)
(* cleared when the call has returned.                                     *)
(***************************************************************************)
CLTryInit == CLInit /\ impl \in {"CountingLockCompSwap", "CountingLockFetch"}

\* Thread t is inside acquire(false); all max permits are held.
CLInTry(t) == ~loc[t].block /\ pc[t] \in {"acquire", "acq_cas", "acq_undo"}
CLFull == Cardinality(CLHolders) >= obj.maxCounter

\* The history of thread t is to be brought up to date.
CLTryStale(t) ==
    \/ CLInTry(t) /\ CLFull /\ iter[t] = 0
    \/ ~CLInTry(t) /\ iter[t] = 1

\* the history of the acquire(false) call of thread t
CLTryNote(t) ==
    /\ CLTryStale(t)
    /\ iter' = [iter EXCEPT ![t] = IF CLInTry(t) THEN 1 ELSE 0]
    /\ UNCHANGED <<impl, obj, pc, loc, env>>

CLTryNext ==
    \E t \in Threads :
        \/ CLTryNote(t)
        \/ /\ \A u \in Threads : ~CLTryStale(u)
           /\ \/ RunCountingLock(t)
              \/ CompSwapAcquire(t)
              \/ CompSwapRelease(t)
              \/ FetchAcquire(t)
              \/ FetchRelease(t)

SpecCLTry == CLTryInit /\ [][CLTryNext]_vars

\* An acquire(false) that returns false has seen max permits held at some
\* instant between its call and its return.
CLTryFailsOnlyWhenFull ==
    \A t \in Threads : CLInTry(t) /\ pc'[t] = "idle" => iter[t] = 1

\* C39: in CountingLockCompSwap and CountingLockFetch with any number of
\* concurrent callers, acquire(false) returns false only if max permits were
\* held at some instant during the call.
C39_NoSpuriousFailure ==
    [][(impl \in {"CountingLockCompSwap", "CountingLockFetch"})
          => CLTryFailsOnlyWhenFull]_vars

\* C39 for CountingLockCompSwap alone.
C39_CompSwap == [][(impl = "CountingLockCompSwap") => CLTryFailsOnlyWhenFull]_vars

\* ---------------------------------------------- a release() that fails
\* Every release() called without a permit so far has failed or is failing:
\* it is before its first access to the counter, between its decrement and
\* its increment (CountingLockFetch), or has thrown.
CLUnheldAllFail == \A t \in Threads : iter[t] = 1 => pc[t] \in {"release", "rel_undo", "thrown"}

\* Every release() called without a permit so far has thrown.
CLUnheldAllThrown == \A t \in Threads : iter[t] = 1 => pc[t] = "thrown"

\* C40: in CountingLockCompSwap and CountingLockFetch, a release() that
\* fails with "Counter is already at 0." has no effect on the lock, also
\* while other threads call acquire(): at most max threads hold a permit at
\* any time, and once it has thrown the counter is the number of permits
\* held (plus the attempts of CountingLockFetch still to be taken back).
C40_FailedReleaseHasNoEffect ==
    impl \in {"CountingLockCompSwap", "CountingLockFetch"} =>
        /\ CLUnheldAllFail => Cardinality(CLPermitHolders) <= obj.maxCounter
        /\ CLUnheldAllThrown =>
              obj.counter = Cardinality(CLPermitHolders)
                               + Cardinality({t \in Threads : pc[t] = "acq_undo"})

\* C40 class by class.
C40_CompSwap == impl = "CountingLockCompSwap" => C40_FailedReleaseHasNoEffect
C40_Fetch == impl = "CountingLockFetch" => C40_FailedReleaseHasNoEffect
=============================================================================
